---- MODULE Spec2Model ----
(***************************************************************************)
(* Round/shuffle state machine of the team coding contest server           *)
(* (Express + Mongoose).  One registered team of three members, the        *)
(* question catalog, the submission ledger and the server clock.  Each     *)
(* request handler is one action; the Judge0 gateway is an environment     *)
(* whose reply per test case is chosen nondeterministically.               *)
(*                                                                         *)
(* Handlers are atomic in the sequential specifications; the start-session *)
(* race, runs in flight and the settings cache are modelled with the       *)
(* handler split at its awaits, the request's local state kept in calls.   *)
(*                                                                         *)
(* Not modelled: members[].lastUpdated, members[].questionHistory,         *)
(* createdAt/submittedAt stamps, titles and descriptions (no handler       *)
(* branches on them).                                                      *)
(***************************************************************************)
EXTENDS Integers, Sequences, FiniteSets, TLC

VARIABLES team, questions, submissions, now, response, settings, calls

vars == <<team, questions, submissions, now, response, settings, calls>>

----------------------------------------------------------------------------
(* Bounds of the model *)

MaxTime == 2
MaxRound == 4
MaxSubs == 3
MaxVersion == 4

(* null of a Number or Date field; also the index of a missing array entry *)
NULL == -1

(* Judge0 language ids: 71 = Python 3 (the default), 62 = Java *)
DefaultLanguage == 71
Java == 62
Langs == {DefaultLanguage, Java}

TeamName == "Alpha"
TeamNames == {TeamName, "Ghost"}
Roster == [i \in 0..2 |-> <<"A", "B", "C">>[i + 1]]
Gmids == {"A", "B", "C", "Z"}
MemberIdx == 0..2

Difficulties == {"easy", "medium", "hard"}
QuestionIds == {"q1", "q2", "q3", "q4"}

EmptyMap == [k \in {} |-> NULL]

MapSet(f, k, v) == [x \in (DOMAIN f) \cup {k} |-> IF x = k THEN v ELSE f[x]]

MapGet(f, k, default) == IF k \in DOMAIN f THEN f[k] ELSE default

----------------------------------------------------------------------------
(* String.prototype.trim on strings written as sequences of characters *)

Whitespace == {" ", "\n"}

RECURSIVE TrimStart(_)
TrimStart(s) ==
    IF s # <<>> /\ Head(s) \in Whitespace THEN TrimStart(Tail(s)) ELSE s

RECURSIVE TrimEnd(_)
TrimEnd(s) ==
    IF s # <<>> /\ s[Len(s)] \in Whitespace
    THEN TrimEnd(SubSeq(s, 1, Len(s) - 1))
    ELSE s

Trim(s) == TrimEnd(TrimStart(s))

----------------------------------------------------------------------------
(* Documents *)

TestCase(in, out) == [input |-> in, expectedOutput |-> out]

(* the catalog the event is run with: one question per tier, plus a second *)
(* easy question that was added without test cases                         *)
SeedCatalog ==
    [q \in QuestionIds |->
        CASE q = "q1" -> [difficulty |-> "easy",
                          testCases |-> <<TestCase("i1", <<"4">>)>>]
          [] q = "q2" -> [difficulty |-> "medium",
                          testCases |-> <<TestCase("i1", <<"4", "\n">>)>>]
          [] q = "q3" -> [difficulty |-> "hard",
                          testCases |-> <<TestCase("i1", <<"4">>),
                                          TestCase("i2", <<"4", "\n">>),
                                          TestCase("i3", <<" ", "4">>)>>]
          [] q = "q4" -> [difficulty |-> "easy", testCases |-> <<>>]]

CoreCatalog == [q \in {"q1", "q2", "q3"} |-> SeedCatalog[q]]

NewMember(g) ==
    [gmid |-> g, currentQuestionIndex |-> NULL, languageId |-> DefaultLanguage,
     completed |-> FALSE]

NewTeam ==
    [teamName |-> TeamName,
     members |-> [i \in MemberIdx |-> NewMember(Roster[i])],
     assignedQuestions |-> <<>>,
     codeByQuestion |-> EmptyMap,
     questionLanguages |-> EmptyMap,
     currentRound |-> 1,
     roundStartTime |-> NULL,
     eventStartTime |-> NULL,
     isActive |-> FALSE,
     eventExpired |-> FALSE,
     completedAt |-> NULL,
     version |-> 0]

(* the admin and the shuffle routes take no gmid *)
NoGmid == "-"

NoResponse == [op |-> "none", gmid |-> NoGmid, status |-> 0]

(* the last request handled (route and req.body.gmid) with its response    *)
(* (status and JSON body)                                                  *)
Reply(o, g, s, b) == [op |-> o, gmid |-> g, status |-> s, body |-> b]

ErrorReply(o, g, s, msg) == Reply(o, g, s, [error |-> msg])

(* team.members.findIndex(m => m.gmid === gmid) *)
FindIndex(t, gmid) ==
    IF \E i \in MemberIdx : t.members[i].gmid = gmid
    THEN CHOOSE i \in MemberIdx :
            /\ t.members[i].gmid = gmid
            /\ \A j \in MemberIdx : t.members[j].gmid = gmid => i <= j
    ELSE -1

(* undefined/null where a question id or a populated question is expected *)
NoQuestion == "none"

(* array[index] for a 0-based index into an array of questions *)
At(arr, i) == IF i >= 0 /\ i < Len(arr) THEN arr[i + 1] ELSE NoQuestion

EveryCompleted(t) == \A i \in MemberIdx : t.members[i].completed

----------------------------------------------------------------------------
(* The global settings document and its in-memory cache; the clock counts  *)
(* seconds                                                                 *)

SETTINGS_CACHE_TTL == 60

SettingsDoc(st, ed) == [shuffleTime |-> st, eventDuration |-> ed]

(* { shuffleTime: 60, eventDuration: 300 } *)
DefaultSettings == SettingsDoc(60, 300)

(* no 'global' document yet; settingsCache = null, settingsCacheTime = 0.  *)
(* doc and cache hold at most one document                                 *)
NewSettings == [doc |-> <<>>, cache |-> <<>>, cacheTime |-> 0]

(* settingsCache && (now - settingsCacheTime) < SETTINGS_CACHE_TTL *)
CacheFresh(s, t) == s.cache # <<>> /\ t - s.cacheTime < SETTINGS_CACHE_TTL

(* Settings.findOne({ key: 'global' }).lean(), or the defaults *)
Fetched(doc) == IF doc = <<>> THEN DefaultSettings ELSE doc[1]

(* what getSettings() returns at time t when nothing interleaves with it *)
GetSettings(s, t) == IF CacheFresh(s, t) THEN s.cache[1] ELSE Fetched(s.doc)

(* the cache that getSettings() leaves at time t *)
CacheAfterGet(s, t) ==
    IF CacheFresh(s, t) THEN s
    ELSE [s EXCEPT !.cache = <<Fetched(s.doc)>>, !.cacheTime = t]

(* no request is in flight *)
NoCalls == [k \in {} |-> NULL]

(* getSettings() as steps of a call in flight: it yields at               *)
(* await Settings.findOne(...), and other handlers run until it resumes    *)

(* the handlers whose getSettings() call is followed *)
Readers == {"r1", "r2"}

(* const now = Date.now(); a fresh cache is returned at once, otherwise    *)
(* the query is sent                                                       *)
BeginGetSettings(r) ==
    /\ r \notin DOMAIN calls
    /\ UNCHANGED <<team, questions, submissions, now, settings>>
    /\ IF CacheFresh(settings, now)
       THEN /\ UNCHANGED calls
            /\ response' = Reply("getSettings", r, 200, settings.cache[1])
       ELSE /\ calls' = MapSet(calls, r, [op |-> "getSettings", pc |-> "query",
                                          now |-> now, settings |-> DefaultSettings])
            /\ UNCHANGED response

(* the database answers Settings.findOne({ key: 'global' }).lean() *)
FetchSettings(r) ==
    /\ r \in DOMAIN calls
    /\ calls[r].op = "getSettings"
    /\ calls[r].pc = "query"
    /\ calls' = [calls EXCEPT ![r].pc = "fetched",
                              ![r].settings = Fetched(settings.doc)]
    /\ UNCHANGED <<team, questions, submissions, now, response, settings>>

(* the call resumes: settingsCache = settings; settingsCacheTime = now,    *)
(* with the now taken before the query                                     *)
FinishGetSettings(r) ==
    /\ r \in DOMAIN calls
    /\ calls[r].op = "getSettings"
    /\ calls[r].pc = "fetched"
    /\ settings' = [settings EXCEPT !.cache = <<calls[r].settings>>,
                                    !.cacheTime = calls[r].now]
    /\ response' = Reply("getSettings", r, 200, calls[r].settings)
    /\ calls' = [k \in (DOMAIN calls) \ {r} |-> calls[k]]
    /\ UNCHANGED <<team, questions, submissions, now>>

(* POST /api/admin/settings as steps of a request in flight; a value of 0  *)
(* stands for a field left out of the request                              *)
Admin == "admin"

(* let settings = await Settings.findOne(...) or new Settings, then the    *)
(* fields of the request are assigned                                      *)
BeginSaveSettings(shuffleTime, eventDuration) ==
    /\ Admin \notin DOMAIN calls
    /\ calls' = MapSet(calls, Admin,
          [op |-> "save-settings", pc |-> "save",
           settings |->
              [shuffleTime |-> IF shuffleTime # 0 THEN shuffleTime
                               ELSE Fetched(settings.doc).shuffleTime,
               eventDuration |-> IF eventDuration # 0 THEN eventDuration
                                 ELSE Fetched(settings.doc).eventDuration]])
    /\ UNCHANGED <<team, questions, submissions, now, response, settings>>

(* the database executes settings.save() *)
WriteSettings ==
    /\ Admin \in DOMAIN calls
    /\ calls[Admin].pc = "save"
    /\ settings' = [settings EXCEPT !.doc = <<calls[Admin].settings>>]
    /\ calls' = [calls EXCEPT ![Admin].pc = "saved"]
    /\ UNCHANGED <<team, questions, submissions, now, response>>

(* settingsCache = null; settingsCacheTime = 0 *)
InvalidateSettingsCache(s) == [s EXCEPT !.cache = <<>>, !.cacheTime = 0]

(* the request resumes after save(): the cache is invalidated and the      *)
(* request answered                                                        *)
FinishSaveSettings ==
    /\ Admin \in DOMAIN calls
    /\ calls[Admin].pc = "saved"
    /\ settings' = InvalidateSettingsCache(settings)
    /\ response' = Reply("save-settings", NoGmid, 200,
                         [success |-> TRUE, settings |-> calls[Admin].settings])
    /\ calls' = [k \in (DOMAIN calls) \ {Admin} |-> calls[k]]
    /\ UNCHANGED <<team, questions, submissions, now>>

----------------------------------------------------------------------------
(* POST /api/student/start-session *)

AnyQuestion(d) == DOMAIN questions

(* Question.find({ difficulty: d }) *)
QuestionsOfDifficulty(d) == {q \in DOMAIN questions : questions[q].difficulty = d}

ShiftedIndex(i) == (i + 1) % 3

(* team.members[i].currentQuestionIndex = i *)
InitialIndex(i) == i

(* milliseconds in a second; the dates of the model count whole seconds    *)
MsPerSecond == 1000

(* new Date(d).getTime(), and Date.now() for the server clock *)
GetTime(d) == d * MsPerSecond

Max(a, b) == IF a >= b THEN a ELSE b

(* Math.floor((Date.now() - new Date(start).getTime()) / 1000) *)
ElapsedSeconds(start, clock) == (GetTime(clock) - GetTime(start)) \div MsPerSecond

(* the interval less the elapsed time, not held at zero *)
RemainingUnclamped(interval, start, clock) ==
    IF start = NULL THEN interval
    ELSE interval - ElapsedSeconds(start, clock)

(* the interval if the start is not set, else                              *)
(* Math.max(0, interval - elapsed)                                         *)
Remaining(interval, start, clock) ==
    IF start = NULL THEN interval
    ELSE Max(0, interval - ElapsedSeconds(start, clock))

(* the intervals of the settings and what is left of them for team t *)
Times(t, s, clock) ==
    [shuffleTime |-> s.shuffleTime,
     eventDuration |-> s.eventDuration,
     remainingShuffleTime |-> Remaining(s.shuffleTime, t.roundStartTime, clock),
     remainingEventTime |-> Remaining(s.eventDuration, t.eventStartTime, clock)]

(* the times answered on activation: "just started, so full time" *)
FullTimes(s) ==
    [shuffleTime |-> s.shuffleTime,
     eventDuration |-> s.eventDuration,
     remainingShuffleTime |-> s.shuffleTime,
     remainingEventTime |-> s.eventDuration]

(* the state snapshot returned for the member at roster position mi *)
Snapshot(t, mi) ==
    LET qid == At(t.assignedQuestions, t.members[mi].currentQuestionIndex)
    IN  [success |-> TRUE,
         alreadyActive |-> TRUE,
         question |-> IF qid \in DOMAIN questions THEN qid ELSE NoQuestion,
         questionId |-> qid,
         codeByLanguage |-> MapGet(t.codeByQuestion, qid, EmptyMap),
         languageId |-> MapGet(t.questionLanguages, qid, DefaultLanguage),
         completed |-> t.members[mi].completed,
         roundStartTime |-> t.roundStartTime,
         currentRound |-> t.currentRound,
         eventStartTime |-> t.eventStartTime,
         eventExpired |-> t.eventExpired]

(* the assignment written by team.save(); replacing the assignedQuestions *)
(* array makes the save increment the document's version key __v          *)
Activated(t, selected) ==
    [t EXCEPT
       !.assignedQuestions = selected,
       !.codeByQuestion = [q \in {selected[k] : k \in 1..3} |-> EmptyMap],
       !.questionLanguages = [q \in {selected[k] : k \in 1..3} |-> DefaultLanguage],
       !.members = [i \in MemberIdx |->
                      [t.members[i] EXCEPT !.currentQuestionIndex = InitialIndex(i),
                                           !.completed = FALSE]],
       !.isActive = TRUE,
       !.roundStartTime = now,
       !.eventStartTime = now,
       !.currentRound = 1,
       !.eventExpired = FALSE,
       !.version = @ + 1]

NeverActive(t) == FALSE

(* if (team.isActive) *)
AlreadyActive(t) == t.isActive

StartSession(teamName, gmid) ==
    /\ UNCHANGED <<questions, submissions, now, calls>>
    /\ settings' = IF teamName # team.teamName THEN settings
                   ELSE CacheAfterGet(settings, now)
    /\ IF teamName # team.teamName
       THEN /\ UNCHANGED team
            /\ response' = ErrorReply("start-session", gmid, 404, "Team not found")
       ELSE IF AlreadyActive(team)
       THEN /\ UNCHANGED team
            /\ LET mi == FindIndex(team, gmid)
               IN  response' =
                     IF mi = -1
                        \/ At(team.assignedQuestions,
                              team.members[mi].currentQuestionIndex) = NoQuestion
                     THEN ErrorReply("start-session", gmid, 500, "TypeError")
                     ELSE Reply("start-session", gmid, 200,
                                Snapshot(team, mi)
                                @@ Times(team, GetSettings(settings, now), now))
       ELSE IF \E d \in Difficulties : QuestionsOfDifficulty(d) = {}
       THEN /\ UNCHANGED team
            /\ response' = ErrorReply("start-session", gmid, 400, "Not enough questions")
       ELSE \E e \in QuestionsOfDifficulty("easy"),
               m \in QuestionsOfDifficulty("medium"),
               h \in QuestionsOfDifficulty("hard") :
              LET selected == <<e, m, h>>
                  mi == FindIndex(team, gmid)
              IN  /\ team.version < MaxVersion
                  /\ team' = Activated(team, selected)
                  /\ response' =
                       IF mi = -1
                       THEN ErrorReply("start-session", gmid, 500, "TypeError")
                       ELSE Reply("start-session", gmid, 200,
                              [success |-> TRUE,
                               alreadyActive |-> FALSE,
                               question |-> At(selected, mi),
                               questionId |-> At(selected, mi),
                               codeByLanguage |-> EmptyMap,
                               languageId |-> team'.members[mi].languageId,
                               completed |-> FALSE,
                               roundStartTime |-> team'.roundStartTime,
                               currentRound |-> team'.currentRound,
                               eventStartTime |-> team'.eventStartTime,
                               eventExpired |-> FALSE]
                              @@ FullTimes(GetSettings(settings, now)))

----------------------------------------------------------------------------
(* start-session as two steps of a request in flight: other requests are   *)
(* handled while it awaits the team document, and again until its save     *)

(* const team = await Team.findOne({ teamName }); the request holds its    *)
(* own copy of the document                                                *)
BeginStartSession(gmid) ==
    /\ gmid \notin DOMAIN calls
    /\ calls' = MapSet(calls, gmid, [op |-> "start-session", doc |-> team])
    /\ UNCHANGED <<team, questions, submissions, now, response, settings>>

Unversioned(doc, t) == TRUE

(* team.save() after an array of the document was replaced: the update is  *)
(* filtered by the __v the document was loaded with, and matches nothing   *)
(* (VersionError) once another save has incremented it                     *)
VersionMatches(doc, t) == doc.version = t.version

(* the rest of the handler, on the copy read before; it saves the paths    *)
(* that the handler modified                                               *)
FinishStartSession(gmid) ==
    /\ gmid \in DOMAIN calls
    /\ calls[gmid].op = "start-session"
    /\ calls' = [k \in (DOMAIN calls) \ {gmid} |-> calls[k]]
    /\ settings' = CacheAfterGet(settings, now)
    /\ UNCHANGED <<questions, submissions, now>>
    /\ LET doc == calls[gmid].doc
           mi == FindIndex(doc, gmid)
       IN  IF AlreadyActive(doc)
           THEN /\ UNCHANGED team
                /\ response' =
                     IF mi = -1
                        \/ At(doc.assignedQuestions,
                              doc.members[mi].currentQuestionIndex) = NoQuestion
                     THEN ErrorReply("start-session", gmid, 500, "TypeError")
                     ELSE Reply("start-session", gmid, 200,
                                Snapshot(doc, mi)
                                @@ Times(doc, GetSettings(settings, now), now))
           ELSE IF \E d \in Difficulties : QuestionsOfDifficulty(d) = {}
           THEN /\ UNCHANGED team
                /\ response' = ErrorReply("start-session", gmid, 400, "Not enough questions")
           ELSE \E e \in QuestionsOfDifficulty("easy"),
                   m \in QuestionsOfDifficulty("medium"),
                   h \in QuestionsOfDifficulty("hard") :
                  LET selected == <<e, m, h>>
                  IN  IF ~VersionMatches(doc, team)
                      THEN /\ UNCHANGED team
                           /\ response' = ErrorReply("start-session", gmid, 500,
                                                     "VersionError")
                      ELSE /\ team.version < MaxVersion
                           /\ team' = Activated(team, selected)
                           /\ response' =
                                IF mi = -1
                                THEN ErrorReply("start-session", gmid, 500, "TypeError")
                                ELSE Reply("start-session", gmid, 200,
                                       [success |-> TRUE,
                                        alreadyActive |-> FALSE,
                                        question |-> At(selected, mi),
                                        questionId |-> At(selected, mi),
                                        codeByLanguage |-> EmptyMap,
                                        languageId |-> doc.members[mi].languageId,
                                        completed |-> FALSE,
                                        roundStartTime |-> now,
                                        currentRound |-> 1,
                                        eventStartTime |-> now,
                                        eventExpired |-> FALSE]
                                       @@ FullTimes(GetSettings(settings, now)))

----------------------------------------------------------------------------
(* POST /api/student/shuffle *)

(* roster positions of the members that have not completed, in roster order *)
RECURSIVE PositionsFrom(_, _)
PositionsFrom(t, i) ==
    IF i > 2 THEN <<>>
    ELSE (IF t.members[i].completed THEN <<>> ELSE <<i>>) \o PositionsFrom(t, i + 1)

AllPositions(t) == <<0, 1, 2>>

IncompleteMembers(t) == PositionsFrom(t, 0)

QuestionIndices(t, inc) ==
    [k \in 1..Len(inc) |-> t.members[inc[k]].currentQuestionIndex]

RotatedRight(qi) == <<qi[Len(qi)]>> \o SubSeq(qi, 1, Len(qi) - 1)

(* [...questionIndices.slice(1), questionIndices[0]] *)
RotatedIndices(qi) == Tail(qi) \o <<Head(qi)>>

PositionOf(inc, i) == CHOOSE k \in 1..Len(inc) : inc[k] = i

ApplyRotationByListIndex(t, inc, rotated) ==
    [i \in MemberIdx |->
        IF i < Len(inc)
        THEN [t.members[i] EXCEPT !.currentQuestionIndex = rotated[i + 1]]
        ELSE t.members[i]]

(* team.members[m.memberIdx].currentQuestionIndex = rotatedIndices[i] *)
ApplyRotation(t, inc, rotated) ==
    [i \in MemberIdx |->
        IF \E k \in 1..Len(inc) : inc[k] = i
        THEN [t.members[i] EXCEPT !.currentQuestionIndex = rotated[PositionOf(inc, i)]]
        ELSE t.members[i]]

SameRound(r) == r

NextRound(r) == r + 1

Rotate(teamName) ==
    /\ team.currentRound < MaxRound
    /\ UNCHANGED <<questions, submissions, now, settings, calls>>
    /\ IF teamName # team.teamName
       THEN /\ UNCHANGED team
            /\ response' = ErrorReply("shuffle", NoGmid, 404, "Team not found")
       ELSE LET inc == IncompleteMembers(team)
            IN  IF Len(inc) <= 1
                THEN /\ team' = [team EXCEPT !.roundStartTime = now,
                                             !.currentRound = NextRound(@)]
                     /\ response' = Reply("shuffle", NoGmid, 200,
                                          [success |-> TRUE, shuffled |-> FALSE])
                ELSE /\ team' = [team EXCEPT
                                   !.members = ApplyRotation(team, inc,
                                       RotatedIndices(QuestionIndices(team, inc))),
                                   !.roundStartTime = now,
                                   !.currentRound = NextRound(@)]
                     /\ response' = Reply("shuffle", NoGmid, 200,
                                          [success |-> TRUE, shuffled |-> TRUE])

----------------------------------------------------------------------------
(* shuffle as two steps of a request in flight: other requests are handled *)
(* while it awaits the team document, and again until its save             *)

(* the requests of the members' clients, each of which posts a shuffle     *)
(* when its countdown ends                                                 *)
Shufflers == {"s1", "s2"}

(* const team = await Team.findOne({ teamName }); the request holds its    *)
(* own copy of the document                                                *)
BeginRotate(r) ==
    /\ r \notin DOMAIN calls
    /\ team.currentRound < MaxRound
    /\ calls' = MapSet(calls, r, [op |-> "shuffle", doc |-> team])
    /\ UNCHANGED <<team, questions, submissions, now, response, settings>>

(* the positions in inc whose member got an index other than the one the   *)
(* copy was loaded with: the paths members.<i>.currentQuestionIndex that   *)
(* save() writes                                                           *)
NoModifiedSlots(doc, inc, rotated) == {}

ModifiedSlots(doc, inc, rotated) ==
    {k \in 1..Len(inc) : rotated[k] # doc.members[inc[k]].currentQuestionIndex}

(* the $set of the modified member paths on the stored document *)
WriteRotation(t, doc, inc, rotated) ==
    [i \in MemberIdx |->
        IF \E k \in ModifiedSlots(doc, inc, rotated) : inc[k] = i
        THEN [t.members[i] EXCEPT !.currentQuestionIndex = rotated[PositionOf(inc, i)]]
        ELSE t.members[i]]

(* the rest of the handler on the copy read before.  team.save() writes    *)
(* the modified paths; a modified members.<i> path filters the update by   *)
(* the __v the copy was loaded with and does not increment it              *)
FinishRotate(r) ==
    /\ r \in DOMAIN calls
    /\ calls[r].op = "shuffle"
    /\ calls' = [k \in (DOMAIN calls) \ {r} |-> calls[k]]
    /\ UNCHANGED <<questions, submissions, now, settings>>
    /\ LET doc == calls[r].doc
           inc == IncompleteMembers(doc)
       IN  IF Len(inc) <= 1
           THEN /\ team' = [team EXCEPT !.roundStartTime = now,
                                        !.currentRound = NextRound(doc.currentRound)]
                /\ response' = Reply("shuffle", NoGmid, 200,
                                     [success |-> TRUE, shuffled |-> FALSE])
           ELSE \E rotated \in {RotatedIndices(QuestionIndices(doc, inc))} :
                  IF /\ ModifiedSlots(doc, inc, rotated) # {}
                     /\ ~VersionMatches(doc, team)
                  THEN /\ UNCHANGED team
                       /\ response' = ErrorReply("shuffle", NoGmid, 500, "VersionError")
                  ELSE /\ team' = [team EXCEPT
                                     !.members = WriteRotation(team, doc, inc, rotated),
                                     !.roundStartTime = now,
                                     !.currentRound = NextRound(doc.currentRound)]
                       /\ response' = Reply("shuffle", NoGmid, 200,
                                            [success |-> TRUE, shuffled |-> TRUE])

----------------------------------------------------------------------------
(* POST /api/student/save-code *)

MatchesMember(t, teamName, gmid) ==
    /\ teamName = t.teamName
    /\ \E i \in MemberIdx : t.members[i].gmid = gmid

(* a filter without the team name *)
MemberFilterOnly(t, teamName, gmid) ==
    /\ \E i \in MemberIdx : t.members[i].gmid = gmid
    /\ ~ \E i \in MemberIdx : t.members[i].completed = TRUE

(* the updateOne filter { teamName, 'members.gmid': gmid,                  *)
(* 'members.completed': { $ne: true } }: each condition ranges over the    *)
(* whole members array, and $ne on an array path holds only when no        *)
(* element equals the value                                                *)
SaveFilterMatches(t, teamName, gmid) ==
    /\ teamName = t.teamName
    /\ \E i \in MemberIdx : t.members[i].gmid = gmid
    /\ ~ \E i \in MemberIdx : t.members[i].completed = TRUE

(* a $set of the whole codeByQuestion.<questionId> entry *)
SaveReplacingEntry(t, code, languageId, questionId) ==
    [t EXCEPT !.codeByQuestion =
                  MapSet(@, questionId, MapSet(EmptyMap, languageId, code)),
              !.questionLanguages = MapSet(@, questionId, languageId)]

(* the $set of codeByQuestion.<questionId>.<languageId> and of             *)
(* questionLanguages.<questionId>                                          *)
SaveUpdate(t, code, languageId, questionId) ==
    [t EXCEPT !.codeByQuestion =
                  MapSet(@, questionId,
                         MapSet(MapGet(@, questionId, EmptyMap),
                                languageId, code)),
              !.questionLanguages = MapSet(@, questionId, languageId)]

(* the team document after the handler: the update applies when the body   *)
(* names a question and the filter matches                                 *)
AfterSave(t, teamName, gmid, code, languageId, questionId) ==
    IF questionId # NoQuestion /\ SaveFilterMatches(t, teamName, gmid)
    THEN SaveUpdate(t, code, languageId, questionId)
    ELSE t

SaveCode(teamName, gmid, code, languageId, questionId) ==
    /\ UNCHANGED <<questions, submissions, now, settings, calls>>
    /\ IF questionId = NoQuestion
       THEN /\ UNCHANGED team
            /\ response' = ErrorReply("save-code", gmid, 400, "questionId is required")
       ELSE IF SaveFilterMatches(team, teamName, gmid)
       THEN /\ team' = SaveUpdate(team, code, languageId, questionId)
            /\ response' = Reply("save-code", gmid, 200, [success |-> TRUE])
       ELSE /\ UNCHANGED team
            /\ response' =
                 IF /\ teamName = team.teamName
                    /\ FindIndex(team, gmid) # -1
                    /\ team.members[FindIndex(team, gmid)].completed
                 THEN Reply("save-code", gmid, 200,
                            [success |-> TRUE, message |-> "Already completed"])
                 ELSE ErrorReply("save-code", gmid, 404, "Team or member not found")

----------------------------------------------------------------------------
(* POST /api/student/run-code *)

(* Judge0 status id 3 = Accepted *)
Accepted == 3
CompilationError == 6

JudgeResult(st, out, err, comp) ==
    [kind |-> "result", statusId |-> st, stdout |-> out, stderr |-> err,
     compile_output |-> comp]

(* axios.post rejected: timeout or transport failure *)
JudgeError == [kind |-> "error"]

GatewayReplies ==
    { JudgeResult(Accepted, <<"4">>, <<>>, <<>>),
      JudgeResult(Accepted, <<" ", "4", "\n">>, <<>>, <<>>),
      JudgeResult(Accepted, <<"5">>, <<>>, <<>>),
      JudgeResult(Accepted, <<>>, <<"4">>, <<>>),
      JudgeResult(CompilationError, <<>>, <<>>, <<"4">>),
      JudgeError }

(* every reply the gateway can give to the calls of one run, one per test  *)
(* case                                                                    *)
AnyGateway == [n \in 1..3 |-> [1..n -> GatewayReplies]]

(* what one call can come back with: the expected output padded with      *)
(* whitespace, another output, or a rejection                              *)
MixedReplies ==
    { JudgeResult(Accepted, <<" ", "4", "\n">>, <<>>, <<>>),
      JudgeResult(Accepted, <<"5">>, <<>>, <<>>),
      JudgeError }

(* a gateway that answers every call, each on its own: the expected        *)
(* output padded with whitespace, or another output                        *)
AnsweringGateway == [n \in 1..3 |-> [1..n -> MixedReplies \ {JudgeError}]]

(* a gateway that answers all calls of one run alike: the expected output  *)
(* accepted, or unreachable                                                *)
UniformGateway ==
    [n \in 1..3 |->
        {[k \in 1..n |-> r] : r \in {JudgeResult(Accepted, <<"4">>, <<>>, <<>>), JudgeError}}]

(* a || b for strings: the empty string is falsy *)
OrElse(a, b) == IF a # <<>> THEN a ELSE b

ActualOutput(result) ==
    Trim(OrElse(result.stdout, OrElse(result.stderr, result.compile_output)))

StatusBlindPassed(reply, testCase) ==
    /\ reply.kind = "result"
    /\ ActualOutput(reply) = Trim(testCase.expectedOutput)

(* result.status?.id === 3 && actualOutput === expectedOutput; a rejected  *)
(* gateway call yields passed: false                                       *)
Passed(reply, testCase) ==
    /\ reply.kind = "result"
    /\ reply.statusId = Accepted
    /\ ActualOutput(reply) = Trim(testCase.expectedOutput)

(* result.status?.description *)
StatusDescription(id) == IF id = Accepted THEN "Accepted" ELSE "Compilation Error"

(* of a result entry the verdict and the status are kept; a rejected       *)
(* gateway call is reported with status 'Error'                            *)
TestResult(reply, testCase) ==
    [input |-> testCase.input,
     passed |-> Passed(reply, testCase),
     status |-> IF reply.kind = "error" THEN "Error"
                ELSE StatusDescription(reply.statusId)]

(* populate('assignedQuestions'): references to deleted questions are      *)
(* dropped from the populated array                                        *)
Populate(arr) == SelectSeq(arr, LAMBDA q : q \in DOMAIN questions)

JudgeAllOrNothing(testCases, replies) ==
    [k \in 1..Len(testCases) |->
        IF \E j \in 1..Len(testCases) : replies[j] = JudgeError
        THEN TestResult(JudgeError, testCases[k])
        ELSE TestResult(replies[k], testCases[k])]

(* Promise.all(question.testCases.map(async (testCase) => { try ... catch  *)
(* ... })): one result per test case, each from its own gateway call       *)
JudgeAll(testCases, replies) ==
    [k \in 1..Len(testCases) |-> TestResult(replies[k], testCases[k])]

PassedCount(results) == Cardinality({k \in 1..Len(results) : results[k].passed})

SomePassed(passedCount, total) == passedCount >= 1

(* passedCount === totalTestCases *)
AllPassed(passedCount, total) == passedCount = total

RecordOnlyFullPass(passedCount, total) == passedCount = total

(* if (passedCount >= 1) *)
ShouldRecord(passedCount, total) == passedCount >= 1

Run(teamName, gmid, code, languageId, gateway) ==
    /\ Len(submissions) < MaxSubs
    /\ UNCHANGED <<questions, now, settings, calls>>
    /\ IF teamName # team.teamName
       THEN /\ UNCHANGED <<team, submissions>>
            /\ response' = ErrorReply("run-code", gmid, 404, "Team not found")
       ELSE IF FindIndex(team, gmid) = -1
       THEN /\ UNCHANGED <<team, submissions>>
            /\ response' = ErrorReply("run-code", gmid, 404, "Member not found")
       ELSE
         LET mi == FindIndex(team, gmid)
             qid == At(Populate(team.assignedQuestions),
                       team.members[mi].currentQuestionIndex)
         IN  IF qid = NoQuestion \/ Len(questions[qid].testCases) = 0
             THEN /\ UNCHANGED <<team, submissions>>
                  /\ response' = ErrorReply("run-code", gmid, 400, "No test cases found")
             ELSE
               LET testCases == questions[qid].testCases
                   totalTestCases == Len(testCases)
                   usedLanguageId == IF languageId = 0 THEN DefaultLanguage
                                     ELSE languageId
               IN  \E replies \in gateway[totalTestCases] :
                   \E results \in {JudgeAll(testCases, replies)} :
                     LET passedCount == PassedCount(results)
                         allPassed == AllPassed(passedCount, totalTestCases)
                         marked == [team EXCEPT !.members[mi].completed = TRUE]
                     IN  /\ submissions' =
                              IF ShouldRecord(passedCount, totalTestCases)
                              THEN Append(submissions,
                                     [teamName |-> teamName,
                                      gmid |-> gmid,
                                      questionId |-> qid,
                                      code |-> code,
                                      languageId |-> usedLanguageId,
                                      passed |-> allPassed,
                                      totalTestCases |-> totalTestCases,
                                      passedTestCases |-> passedCount])
                              ELSE submissions
                         /\ team' =
                              IF allPassed
                              THEN IF EveryCompleted(marked)
                                   THEN [marked EXCEPT !.completedAt = now]
                                   ELSE marked
                              ELSE team
                         /\ response' = Reply("run-code", gmid, 200,
                              [success |-> TRUE,
                               results |-> results,
                               allPassed |-> allPassed,
                               passedCount |-> passedCount,
                               totalTestCases |-> totalTestCases,
                               completed |-> allPassed,
                               allTeamCompleted |-> EveryCompleted(team')])

----------------------------------------------------------------------------
(* run-code as steps of a request in flight: other requests are handled    *)
(* while it awaits the team document and the replies of the gateway        *)

(* a gateway call that has not returned *)
Pending == [kind |-> "pending"]

(* from the request up to the gateway calls, one per test case; the        *)
(* request holds its own copy of the team document with the questions      *)
(* populated                                                               *)
BeginRun(teamName, gmid, code, languageId) ==
    /\ gmid \notin DOMAIN calls
    /\ UNCHANGED <<team, questions, submissions, now, settings>>
    /\ IF teamName # team.teamName
       THEN /\ UNCHANGED calls
            /\ response' = ErrorReply("run-code", gmid, 404, "Team not found")
       ELSE IF FindIndex(team, gmid) = -1
       THEN /\ UNCHANGED calls
            /\ response' = ErrorReply("run-code", gmid, 404, "Member not found")
       ELSE
         LET mi == FindIndex(team, gmid)
             qid == At(Populate(team.assignedQuestions),
                       team.members[mi].currentQuestionIndex)
         IN  IF qid = NoQuestion \/ Len(questions[qid].testCases) = 0
             THEN /\ UNCHANGED calls
                  /\ response' = ErrorReply("run-code", gmid, 400, "No test cases found")
             ELSE /\ UNCHANGED response
                  /\ calls' = MapSet(calls, gmid,
                        [op |-> "run-code",
                         doc |-> team,
                         questionId |-> qid,
                         testCases |-> questions[qid].testCases,
                         code |-> code,
                         languageId |-> IF languageId = 0 THEN DefaultLanguage
                                        ELSE languageId,
                         replies |-> [k \in 1..Len(questions[qid].testCases) |->
                                        Pending],
                         recorded |-> FALSE])

(* the gateway call for test case k returns or is rejected *)
GatewayReply(gmid, k, reply) ==
    /\ gmid \in DOMAIN calls
    /\ calls[gmid].op = "run-code"
    /\ k \in DOMAIN calls[gmid].replies
    /\ calls[gmid].replies[k] = Pending
    /\ calls' = [calls EXCEPT ![gmid].replies[k] = reply]
    /\ UNCHANGED <<team, questions, submissions, now, response, settings>>

(* once every gateway call has settled: await submission.save(), of a      *)
(* record only if at least one test case passed                            *)
RecordRun(gmid) ==
    /\ gmid \in DOMAIN calls
    /\ calls[gmid].op = "run-code"
    /\ \A k \in DOMAIN calls[gmid].replies : calls[gmid].replies[k] # Pending
    /\ ~calls[gmid].recorded
    /\ Len(submissions) < MaxSubs
    /\ calls' = [calls EXCEPT ![gmid].recorded = TRUE]
    /\ UNCHANGED <<team, questions, now, response, settings>>
    /\ LET c == calls[gmid]
           totalTestCases == Len(c.testCases)
       IN  \E results \in {JudgeAll(c.testCases, c.replies)} :
             LET passedCount == PassedCount(results)
             IN  submissions' =
                   IF ShouldRecord(passedCount, totalTestCases)
                   THEN Append(submissions,
                          [teamName |-> c.doc.teamName,
                           gmid |-> gmid,
                           questionId |-> c.questionId,
                           code |-> c.code,
                           languageId |-> c.languageId,
                           passed |-> AllPassed(passedCount, totalTestCases),
                           totalTestCases |-> totalTestCases,
                           passedTestCases |-> passedCount])
                   ELSE submissions

(* a handler that goes on without awaiting the ledger write *)
LedgerNotAwaited(c) == TRUE

(* the handler is past await submission.save() *)
LedgerWritten(c) == c.recorded

(* the rest of the handler, on the copy read before.  team.save() writes   *)
(* the paths the handler modified; a modified members[i].completed filters *)
(* the update by the __v the copy was loaded with                          *)
FinishRun(gmid) ==
    /\ gmid \in DOMAIN calls
    /\ calls[gmid].op = "run-code"
    /\ \A k \in DOMAIN calls[gmid].replies : calls[gmid].replies[k] # Pending
    /\ LedgerWritten(calls[gmid])
    /\ calls' = [k \in (DOMAIN calls) \ {gmid} |-> calls[k]]
    /\ UNCHANGED <<questions, submissions, now, settings>>
    /\ LET c == calls[gmid]
           doc == c.doc
           mi == FindIndex(doc, gmid)
           totalTestCases == Len(c.testCases)
       IN  \E results \in {JudgeAll(c.testCases, c.replies)} :
             LET passedCount == PassedCount(results)
                 allPassed == AllPassed(passedCount, totalTestCases)
                 marked == [doc EXCEPT !.members[mi].completed = TRUE]
                 flagModified == ~doc.members[mi].completed
             IN  IF allPassed /\ flagModified /\ ~VersionMatches(doc, team)
                 THEN /\ UNCHANGED team
                      /\ response' = ErrorReply("run-code", gmid, 500, "VersionError")
                 ELSE /\ team' =
                           IF allPassed
                           THEN [team EXCEPT
                                   !.members[mi].completed =
                                       IF flagModified THEN TRUE ELSE @,
                                   !.completedAt =
                                       IF EveryCompleted(marked) THEN now ELSE @]
                           ELSE team
                      /\ response' = Reply("run-code", gmid, 200,
                           [success |-> TRUE,
                            results |-> results,
                            allPassed |-> allPassed,
                            passedCount |-> passedCount,
                            totalTestCases |-> totalTestCases,
                            completed |-> allPassed,
                            allTeamCompleted |->
                                IF allPassed THEN EveryCompleted(marked)
                                ELSE EveryCompleted(doc)])

----------------------------------------------------------------------------
(* POST /api/student/get-state and POST /api/student/check-shuffle *)

(* what both routes read for the member at roster position mi from the     *)
(* team document with assignedQuestions populated                          *)
RosterPosition(t, mi) == mi

(* member.currentQuestionIndex *)
QuestionIndexOf(t, mi) == t.members[mi].currentQuestionIndex

StateView(t, mi, s) ==
    LET qid == At(Populate(t.assignedQuestions), QuestionIndexOf(t, mi))
    IN  [success |-> TRUE,
         question |-> qid,
         questionId |-> qid,
         codeByLanguage |-> MapGet(t.codeByQuestion, qid, EmptyMap),
         languageId |-> MapGet(t.questionLanguages, qid, DefaultLanguage),
         completed |-> t.members[mi].completed,
         roundStartTime |-> t.roundStartTime,
         currentRound |-> t.currentRound,
         eventStartTime |-> t.eventStartTime,
         shuffleTime |-> s.shuffleTime,
         eventDuration |-> s.eventDuration,
         eventExpired |-> t.eventExpired]

GetState(teamName, gmid) ==
    /\ UNCHANGED <<team, questions, submissions, now, calls>>
    /\ IF teamName # team.teamName
       THEN /\ UNCHANGED settings
            /\ response' = ErrorReply("get-state", gmid, 404, "Team not found")
       ELSE /\ settings' = CacheAfterGet(settings, now)
            /\ response' =
                 IF FindIndex(team, gmid) = -1
                 THEN ErrorReply("get-state", gmid, 500, "TypeError")
                 ELSE Reply("get-state", gmid, 200,
                        StateView(team, FindIndex(team, gmid),
                                  GetSettings(settings, now))
                        @@ Times(team, GetSettings(settings, now), now)
                        @@ [isActive |-> team.isActive,
                            allCompleted |-> EveryCompleted(team)])

RoundReached(t, clientRound) == t.currentRound >= clientRound

(* team.currentRound > clientRound *)
ShuffleHappened(t, clientRound) == t.currentRound > clientRound

CheckShuffle(teamName, gmid, clientRound) ==
    /\ UNCHANGED <<team, questions, submissions, now, calls>>
    /\ IF teamName # team.teamName
       THEN /\ UNCHANGED settings
            /\ response' = ErrorReply("check-shuffle", gmid, 404, "Team not found")
       ELSE /\ settings' = CacheAfterGet(settings, now)
            /\ response' =
                 IF FindIndex(team, gmid) = -1
                 THEN ErrorReply("check-shuffle", gmid, 500, "TypeError")
                 ELSE Reply("check-shuffle", gmid, 200,
                        StateView(team, FindIndex(team, gmid),
                                  GetSettings(settings, now))
                        @@ Times(team, GetSettings(settings, now), now)
                        @@ [shuffleHappened |-> ShuffleHappened(team, clientRound)])

----------------------------------------------------------------------------
(* POST /api/student/event-expired *)

(* expiry that also ends the session *)
ExpiredAndStopped(t) == [t EXCEPT !.eventExpired = TRUE, !.isActive = FALSE]

(* team.eventExpired = true *)
Expired(t) == [t EXCEPT !.eventExpired = TRUE]

ExpireEvent(teamName, gmid) ==
    /\ UNCHANGED <<questions, submissions, now, settings, calls>>
    /\ IF teamName # team.teamName
       THEN /\ UNCHANGED team
            /\ response' = ErrorReply("event-expired", gmid, 404, "Team not found")
       ELSE /\ team' = Expired(team)
            /\ response' = Reply("event-expired", gmid, 200, [success |-> TRUE])

----------------------------------------------------------------------------
(* Admin routes on the catalog and the team (the admin secret is right) *)

(* POST /api/admin/add-question; the documents a question id can be        *)
(* created with are those of SeedCatalog, under any difficulty             *)
AddQuestion(q, difficulty) ==
    /\ q \notin DOMAIN questions
    /\ questions' = MapSet(questions, q,
                           [SeedCatalog[q] EXCEPT !.difficulty = difficulty])
    /\ response' = Reply("add-question", NoGmid, 200, [success |-> TRUE])
    /\ UNCHANGED <<team, submissions, now, settings, calls>>

(* DELETE /api/admin/questions/:id *)
DeleteQuestion(q) ==
    /\ questions' = [x \in (DOMAIN questions) \ {q} |-> questions[x]]
    /\ response' = Reply("delete-question", NoGmid, 200, [success |-> TRUE])
    /\ UNCHANGED <<team, submissions, now, settings, calls>>

(* PUT /api/admin/questions/:id with a difficulty *)
EditQuestion(q, difficulty) ==
    /\ UNCHANGED <<team, submissions, now, settings, calls>>
    /\ IF q \notin DOMAIN questions
       THEN /\ UNCHANGED questions
            /\ response' = ErrorReply("edit-question", NoGmid, 404, "Question not found")
       ELSE /\ questions' = [questions EXCEPT ![q].difficulty = difficulty]
            /\ response' = Reply("edit-question", NoGmid, 200, [success |-> TRUE])

(* DELETE /api/admin/submissions *)
DeleteSubmissions ==
    /\ submissions' = <<>>
    /\ response' = Reply("delete-submissions", NoGmid, 200, [success |-> TRUE])
    /\ UNCHANGED <<team, questions, now, settings, calls>>

(* a reset of the round alone: the event's start and expiry are kept *)
ClearedOfRoundOnly(t) ==
    [t EXCEPT
       !.members = [i \in MemberIdx |->
                      [@[i] EXCEPT !.currentQuestionIndex = NULL,
                                   !.languageId = DefaultLanguage,
                                   !.completed = FALSE]],
       !.assignedQuestions = <<>>,
       !.codeByQuestion = EmptyMap,
       !.questionLanguages = EmptyMap,
       !.currentRound = 1,
       !.roundStartTime = NULL,
       !.isActive = FALSE,
       !.completedAt = NULL]

(* the fields both reset routes assign *)
Cleared(t) ==
    [t EXCEPT
       !.members = [i \in MemberIdx |->
                      [@[i] EXCEPT !.currentQuestionIndex = NULL,
                                   !.languageId = DefaultLanguage,
                                   !.completed = FALSE]],
       !.assignedQuestions = <<>>,
       !.codeByQuestion = EmptyMap,
       !.questionLanguages = EmptyMap,
       !.currentRound = 1,
       !.roundStartTime = NULL,
       !.eventStartTime = NULL,
       !.isActive = FALSE,
       !.eventExpired = FALSE,
       !.completedAt = NULL]

(* a reset that leaves the session running *)
ResetKeepingActive(t) ==
    [t EXCEPT
       !.version = IF t.assignedQuestions # <<>> THEN @ + 1 ELSE @,
       !.members = [i \in MemberIdx |->
                      [@[i] EXCEPT !.currentQuestionIndex = NULL,
                                   !.languageId = DefaultLanguage,
                                   !.completed = FALSE]],
       !.assignedQuestions = <<>>,
       !.codeByQuestion = EmptyMap,
       !.questionLanguages = EmptyMap,
       !.currentRound = 1,
       !.roundStartTime = NULL,
       !.eventStartTime = NULL,
       !.eventExpired = FALSE,
       !.completedAt = NULL]

(* reset-team assigns the fields and calls team.save(); replacing a        *)
(* non-empty assignedQuestions array makes save() increment __v            *)
Reset(t) ==
    [Cleared(t) EXCEPT
       !.version = IF t.assignedQuestions # <<>> THEN @ + 1 ELSE @]

(* POST /api/admin/reset-team/:teamName *)
ResetTeam(teamName) ==
    /\ UNCHANGED <<questions, submissions, now, settings, calls>>
    /\ IF teamName # team.teamName
       THEN /\ UNCHANGED team
            /\ response' = ErrorReply("reset-team", NoGmid, 404, "Team not found")
       ELSE /\ team.assignedQuestions # <<>> => team.version < MaxVersion
            /\ team' = Reset(team)
            /\ response' = Reply("reset-team", NoGmid, 200, [success |-> TRUE])

(* POST /api/admin/reset-all-teams: Team.updateMany with a $set, which     *)
(* leaves __v as it is                                                     *)
ResetAllTeams ==
    /\ UNCHANGED <<questions, submissions, now, settings, calls>>
    /\ team' = Cleared(team)
    /\ response' = Reply("reset-all-teams", NoGmid, 200,
                         [success |-> TRUE, count |-> 1])

----------------------------------------------------------------------------
(* the server clock *)

Tick ==
    /\ now < MaxTime
    /\ now' = now + 1
    /\ UNCHANGED <<team, questions, submissions, response, settings, calls>>

----------------------------------------------------------------------------
(* The round engine, one request at a time *)

Init ==
    /\ team = NewTeam
    /\ questions = CoreCatalog
    /\ submissions = <<>>
    /\ now = 0
    /\ response = NoResponse
    /\ settings = NewSettings
    /\ calls = NoCalls

Next ==
    \/ \E g \in {"A", "B"} : StartSession(TeamName, g)
    \/ \E g \in {"A", "C"} : SaveCode(TeamName, g, "a", Java, "q1")
    \/ \E tn \in TeamNames : Rotate(tn)
    \/ \E i \in MemberIdx :
          /\ ~team.members[i].completed
          /\ Run(TeamName, Roster[i], "a", 0, UniformGateway)
    \/ Tick

Spec == Init /\ [][Next]_vars

----------------------------------------------------------------------------
(* Session start over a catalog that the admin builds and edits *)

InitSession ==
    /\ team = NewTeam
    /\ questions = EmptyMap
    /\ submissions = <<>>
    /\ now = 0
    /\ response = NoResponse
    /\ settings = NewSettings
    /\ calls = NoCalls

NextSession ==
    \/ \E q \in QuestionIds : AddQuestion(q, SeedCatalog[q].difficulty)
    \/ \E q \in QuestionIds : DeleteQuestion(q)
    \/ \E d \in Difficulties : EditQuestion("q4", d)
    \/ \E tn \in TeamNames, g \in Gmids : StartSession(tn, g)
    \/ \E tn \in TeamNames : ResetTeam(tn)
    \/ Tick

SpecSession == InitSession /\ [][NextSession]_vars

----------------------------------------------------------------------------
(* Judged runs by any caller, each test case with its own verdict *)

InitRun ==
    /\ team = NewTeam
    /\ questions = SeedCatalog
    /\ submissions = <<>>
    /\ now = 0
    /\ response = NoResponse
    /\ settings = NewSettings
    /\ calls = NoCalls

NextRun ==
    \/ StartSession(TeamName, "A")
    \/ \E g \in Gmids :
          Run(TeamName, g, "a", IF g = "A" THEN Java ELSE 0,
              IF g = "C" THEN AnsweringGateway ELSE UniformGateway)
    \/ Run("Ghost", "A", "a", 0, UniformGateway)
    \/ Tick

SpecRun == InitRun /\ [][NextRun]_vars

----------------------------------------------------------------------------
(* Members polling for the state of a running, rotating, expiring event *)

InitPoll ==
    /\ team = NewTeam
    /\ questions = CoreCatalog
    /\ submissions = <<>>
    /\ now = 0
    /\ response = NoResponse
    /\ settings = NewSettings
    /\ calls = NoCalls

(* the rounds a polling client asks about *)
ClientRounds == 1..2

NextPoll ==
    \/ \E g \in {"A", "C"} : StartSession(TeamName, g)
    \/ SaveCode(TeamName, "A", "a", Java, "q1")
    \/ Rotate(TeamName)
    \/ Run(TeamName, "A", "a", 0, UniformGateway)
    \/ \E g \in {"C", "Z"} : GetState(TeamName, g)
    \/ GetState("Ghost", "C")
    \/ \E g \in {"C", "Z"}, r \in ClientRounds : CheckShuffle(TeamName, g, r)
    \/ CheckShuffle("Ghost", "C", 1)
    \/ \E tn \in TeamNames : ExpireEvent(tn, "A")
    \/ Tick

SpecPoll == InitPoll /\ [][NextPoll]_vars

----------------------------------------------------------------------------
(* Members starting the session at the same time *)

InitStart ==
    /\ team = NewTeam
    /\ questions = SeedCatalog
    /\ submissions = <<>>
    /\ now = 0
    /\ response = NoResponse
    /\ settings = NewSettings
    /\ calls = NoCalls

NextStart ==
    \/ \E g \in Gmids : BeginStartSession(g)
    \/ \E g \in Gmids : FinishStartSession(g)
    \/ Tick

SpecStart == InitStart /\ [][NextStart]_vars

----------------------------------------------------------------------------
(* Runs in flight, the gateway answering each test case on its own *)

InitJudge ==
    /\ team = NewTeam
    /\ questions = CoreCatalog
    /\ submissions = <<>>
    /\ now = 0
    /\ response = NoResponse
    /\ settings = NewSettings
    /\ calls = NoCalls

NextJudge ==
    \/ StartSession(TeamName, "A")
    \/ \E g \in {"C", "Z"} : BeginRun(TeamName, g, "a", 0)
    \/ BeginRun("Ghost", "C", "a", 0)
    \/ \E k \in 1..3, reply \in MixedReplies : GatewayReply("C", k, reply)
    \/ RecordRun("C")
    \/ FinishRun("C")

SpecJudge == InitJudge /\ [][NextJudge]_vars

----------------------------------------------------------------------------
(* Settings written by the admin while handlers read them through the      *)
(* cache                                                                   *)

InitSettings ==
    /\ team = NewTeam
    /\ questions = CoreCatalog
    /\ submissions = <<>>
    /\ now = 0
    /\ response = NoResponse
    /\ settings = NewSettings
    /\ calls = NoCalls

NextSettings ==
    \/ \E r \in Readers : BeginGetSettings(r)
    \/ \E r \in Readers : FetchSettings(r)
    \/ \E r \in Readers : FinishGetSettings(r)
    \/ \E st \in {0, 30}, ed \in {0, 120} : BeginSaveSettings(st, ed)
    \/ WriteSettings
    \/ FinishSaveSettings
    \/ Tick

SpecSettings == InitSettings /\ [][NextSettings]_vars

----------------------------------------------------------------------------
(* Properties of rotation *)

Slot(t, i) == t.members[i].currentQuestionIndex

Incomplete(t) == {i \in MemberIdx : ~t.members[i].completed}

(* the incomplete member that follows i in roster order, cyclically *)
Successor(t, i) ==
    LET later == {j \in Incomplete(t) : j > i}
        pick(S) == CHOOSE j \in S : \A k \in S : j <= k
    IN  IF later # {} THEN pick(later) ELSE pick(Incomplete(t))

SlotCount(t, v) == Cardinality({i \in Incomplete(t) : Slot(t, i) = v})

ShuffleDone ==
    /\ response.op = "shuffle"
    /\ response.status = 200

(* C1: a rotate call with n >= 2 incomplete members gives each incomplete  *)
(* member the slot that the next incomplete member in roster order         *)
(* (cyclically) held before the call; with exactly two incomplete members  *)
(* their slots swap and the round increments by exactly 1.                 *)
C1_RotateLeftAmongIncomplete ==
    [][Rotate(TeamName) /\ Cardinality(Incomplete(team)) >= 2 =>
         /\ \A i \in Incomplete(team) :
               Slot(team', i) = Slot(team, Successor(team, i))
         /\ Cardinality(Incomplete(team)) = 2 =>
               /\ \E a, b \in Incomplete(team) :
                     /\ a # b
                     /\ Slot(team', a) = Slot(team, b)
                     /\ Slot(team', b) = Slot(team, a)
               /\ team'.currentRound = team.currentRound + 1]_vars

(* three incomplete members have been rotated once from the initial        *)
(* assignment                                                              *)
C1_Witness ==
    /\ ShuffleDone
    /\ response.body.shuffled
    /\ team.isActive
    /\ Incomplete(team) = MemberIdx
    /\ team.currentRound = 2
    /\ Slot(team, 0) = 1 /\ Slot(team, 1) = 2 /\ Slot(team, 2) = 0

(* C2: a rotate call preserves the multiset of slot indices held by the    *)
(* incomplete members and leaves the stored code of every problem as it    *)
(* was.                                                                    *)
C2_RotateIsPermutation ==
    [][Rotate(TeamName) =>
         /\ Incomplete(team') = Incomplete(team)
         /\ \A v \in {NULL} \cup MemberIdx : SlotCount(team', v) = SlotCount(team, v)
         /\ team'.codeByQuestion = team.codeByQuestion
         /\ team'.questionLanguages = team.questionLanguages]_vars

(* a permutation among two incomplete members with code in the store *)
C2_Witness ==
    /\ ShuffleDone
    /\ response.body.shuffled
    /\ Cardinality(Incomplete(team)) = 2
    /\ "q1" \in DOMAIN team.codeByQuestion
    /\ Java \in DOMAIN team.codeByQuestion["q1"]

(* C3: no rotate call changes the slot index of a member whose completed   *)
(* flag is true.                                                           *)
C3_CompletedSlotFrozen ==
    [][Rotate(TeamName) =>
         \A i \in MemberIdx :
            team.members[i].completed => Slot(team', i) = Slot(team, i)]_vars

(* the first roster member is completed and the other two were permuted *)
C3_Witness ==
    /\ ShuffleDone
    /\ response.body.shuffled
    /\ team.members[0].completed
    /\ Incomplete(team) = {1, 2}
    /\ Slot(team, 1) # 1

(* C5: with at most one incomplete member a rotate call changes no slot    *)
(* index; it only increments the round counter by 1 and sets roundStart    *)
(* to the current time.                                                    *)
C5_LoneStragglerKeepsSlot ==
    [][Rotate(TeamName) /\ Cardinality(Incomplete(team)) <= 1 =>
         /\ \A i \in MemberIdx : Slot(team', i) = Slot(team, i)
         /\ team' = [team EXCEPT !.currentRound = team.currentRound + 1,
                                 !.roundStartTime = now]]_vars

(* a rotate call found exactly one incomplete member, later than the       *)
(* session start                                                           *)
C5_Witness ==
    /\ ShuffleDone
    /\ ~response.body.shuffled
    /\ Cardinality(Incomplete(team)) = 1
    /\ team.roundStartTime = now
    /\ team.eventStartTime < now

(* C6: every rotate call increases currentRound by exactly 1 and sets      *)
(* roundStart to the current time, whether or not a permutation happened;  *)
(* so the round never decreases across rotate calls.                       *)
C6_RoundIncrementsByOne ==
    [][Rotate(TeamName) =>
         /\ team'.currentRound = team.currentRound + 1
         /\ team'.currentRound >= team.currentRound
         /\ team'.roundStartTime = now]_vars

(* two rotate calls have been made, the later without a permutation *)
C6_Witness ==
    /\ ShuffleDone
    /\ ~response.body.shuffled
    /\ team.currentRound = 3
    /\ team.roundStartTime = now
    /\ now > 0

----------------------------------------------------------------------------
(* Properties of save-code *)

(* C4: save_code by a member whose completed flag is true writes nothing   *)
(* (code store, last-used languages and all other team fields keep their   *)
(* values) and answers success with the message 'Already completed'.       *)
C4_CompletedSaveIsNoOp ==
    [][\A g \in Gmids, q \in {"q1", "q2"} :
          /\ SaveCode(TeamName, g, "a", Java, q)
          /\ FindIndex(team, g) # -1
          /\ team.members[FindIndex(team, g)].completed
          => /\ team' = team
             /\ submissions' = submissions
             /\ response'.status = 200
             /\ response'.body = [success |-> TRUE, message |-> "Already completed"]]_vars

(* the completed first member tried to save code for q1, whose store is    *)
(* still empty                                                             *)
C4_Witness ==
    /\ response.op = "save-code"
    /\ response.status = 200
    /\ "message" \in DOMAIN response.body
    /\ team.members[0].completed
    /\ ~team.members[2].completed
    /\ team.codeByQuestion["q1"] = EmptyMap

----------------------------------------------------------------------------
(* Properties of session start *)

(* a start-session step that activates the team *)
Activation(g) ==
    /\ StartSession(TeamName, g)
    /\ ~team.isActive
    /\ team'.isActive

Tier(q) == questions[q].difficulty

SessionStarted ==
    /\ response.op = "start-session"
    /\ response.status = 200
    /\ ~response.body.alreadyActive
    /\ team.isActive

(* C7: after start_session activates an inactive team the team has exactly *)
(* three assigned problems, all in the catalog, whose tiers are pairwise   *)
(* distinct: one easy, one medium, one hard.                               *)
C7_OneProblemPerTier ==
    [][\A g \in Gmids :
          Activation(g) =>
             LET aq == team'.assignedQuestions
             IN  /\ Len(aq) = 3
                 /\ \A k \in 1..3 : aq[k] \in DOMAIN questions
                 /\ \A j, k \in 1..3 : j # k => Tier(aq[j]) # Tier(aq[k])
                 /\ \A d \in Difficulties :
                       Cardinality({k \in 1..3 : Tier(aq[k]) = d}) = 1]_vars

(* activated from a catalog with two easy questions to choose from *)
C7_Witness ==
    /\ SessionStarted
    /\ team.assignedQuestions[1] = "q4"
    /\ {"q1", "q4"} \subseteq QuestionsOfDifficulty("easy")

(* C8: when start_session activates a team, the roster member at position  *)
(* i holds slot i, slot 0/1/2 is the easy/medium/hard problem, the round   *)
(* is 1, and a caller of the roster is returned the problem at its slot.   *)
C8_RosterPositionIsSlot ==
    [][\A g \in Gmids :
          Activation(g) =>
             /\ \A i \in MemberIdx : team'.members[i].currentQuestionIndex = i
             /\ Tier(At(team'.assignedQuestions, 0)) = "easy"
             /\ Tier(At(team'.assignedQuestions, 1)) = "medium"
             /\ Tier(At(team'.assignedQuestions, 2)) = "hard"
             /\ team'.currentRound = 1
             /\ FindIndex(team, g) # -1 =>
                   /\ response'.status = 200
                   /\ response'.body.currentRound = 1
                   /\ response'.body.question =
                         At(team'.assignedQuestions,
                            team'.members[FindIndex(team, g)].currentQuestionIndex)]_vars

(* the third roster member activated the team and was returned the hard    *)
(* problem                                                                 *)
C8_Witness ==
    /\ SessionStarted
    /\ response.body.question = "q3"
    /\ team.members[2].currentQuestionIndex = 2
    /\ team.assignedQuestions[3] = "q3"
    /\ team.currentRound = 1

----------------------------------------------------------------------------
(* Properties of run *)

(* a step in which run-code was handled for caller g: the clock stands,   *)
(* and the request left its response                                       *)
RunBy(g) ==
    /\ response'.op = "run-code"
    /\ response'.gmid = g
    /\ now' = now
    /\ <<team, submissions, response>>' # <<team, submissions, response>>

Judged(r) == r.op = "run-code" /\ r.status = 200

VerdictCount(r) == Cardinality({k \in DOMAIN r.body.results : r.body.results[k].passed})

(* the question at the caller's slot, as run-code looks it up *)
CurrentQuestion(t, g) ==
    At(Populate(t.assignedQuestions), t.members[FindIndex(t, g)].currentQuestionIndex)

(* C9: run sets the caller's completed flag exactly when every test case   *)
(* of the caller's current problem passed, and otherwise leaves the team   *)
(* as it was; when the flag makes all members completed, completedAt is    *)
(* stamped with the current time and the response reports                  *)
(* allTeamCompleted.                                                       *)
C9_CompletedIffAllPassed ==
    [][\A g \in Gmids :
          RunBy(g) =>
             IF ~Judged(response')
             THEN team' = team
             ELSE LET mi == FindIndex(team, g)
                      total == Len(questions[CurrentQuestion(team, g)].testCases)
                      allPass == VerdictCount(response') = total
                  IN  /\ Len(response'.body.results) = total
                      /\ allPass => team'.members[mi].completed
                      /\ ~allPass => team' = team
                      /\ \A j \in MemberIdx \ {mi} : team'.members[j] = team.members[j]
                      /\ response'.body.allTeamCompleted = EveryCompleted(team')
                      /\ allPass /\ EveryCompleted(team') =>
                            /\ team'.completedAt = now
                            /\ response'.body.allTeamCompleted]_vars

(* the last incomplete member passed all test cases, later than the        *)
(* session start                                                           *)
C9_Witness ==
    /\ Judged(response)
    /\ response.body.allPassed
    /\ response.body.allTeamCompleted
    /\ EveryCompleted(team)
    /\ team.completedAt = now
    /\ team.eventStartTime < now

(* C10: run appends exactly one Submission record when at least one test   *)
(* case passed and none otherwise; the record carries passed = (all test   *)
(* cases passed), the number of passed cases and the number of test cases. *)
C10_OneRecordPerPassingRun ==
    [][\A g \in Gmids :
          RunBy(g) =>
             IF ~Judged(response') \/ VerdictCount(response') = 0
             THEN submissions' = submissions
             ELSE LET total == Len(questions[CurrentQuestion(team, g)].testCases)
                      n == VerdictCount(response')
                      last == submissions'[Len(submissions')]
                  IN  /\ Len(submissions') = Len(submissions) + 1
                      /\ SubSeq(submissions', 1, Len(submissions)) = submissions
                      /\ last.teamName = TeamName
                      /\ last.gmid = g
                      /\ last.questionId = CurrentQuestion(team, g)
                      /\ last.passed = (n = total)
                      /\ last.passedTestCases = n
                      /\ last.totalTestCases = total]_vars

(* two of the three test cases of the hard problem passed *)
C10_Witness ==
    /\ Judged(response)
    /\ response.body.passedCount = 2
    /\ Len(submissions) = 1
    /\ submissions[1].passed = FALSE
    /\ submissions[1].passedTestCases = 2
    /\ submissions[1].totalTestCases = 3
    /\ ~team.members[2].completed

----------------------------------------------------------------------------
(* Properties of save-code by a member at work *)

CodeOf(t, q, lang) == MapGet(MapGet(t.codeByQuestion, q, EmptyMap), lang, "")

(* C11: save_code by an existing member that has not completed, with a     *)
(* problem reference p, sets the entry (p, language) of the code store to  *)
(* the code and the last-used language of p to that language; every other  *)
(* entry keeps its value.                                                  *)
C11_SaveSetsEntry ==
    [][\A g \in {"A", "C"} :
          /\ SaveCode(TeamName, g, "a", Java, "q1")
          /\ ~team.members[FindIndex(team, g)].completed
          => /\ CodeOf(team', "q1", Java) = "a"
             /\ MapGet(team'.questionLanguages, "q1", NULL) = Java
             /\ \A q \in DOMAIN team.codeByQuestion, lang \in Langs :
                   <<q, lang>> # <<"q1", Java>> =>
                      CodeOf(team', q, lang) = CodeOf(team, q, lang)
             /\ \A q \in DOMAIN team.questionLanguages :
                   q # "q1" => team'.questionLanguages[q] = team.questionLanguages[q]]_vars

----------------------------------------------------------------------------
(* Properties of an expired event *)

(* C12: run on a team whose eventExpired flag is true fails with an        *)
(* event-expired rejection: it appends no Submission and sets no member's  *)
(* completed flag.                                                         *)
C12_RunRejectedAfterExpiry ==
    [][\A g \in Gmids :
          RunBy(g) /\ team.eventExpired =>
             /\ response'.status # 200
             /\ submissions' = submissions
             /\ \A i \in MemberIdx :
                   team'.members[i].completed = team.members[i].completed]_vars

----------------------------------------------------------------------------
(* Properties of a session that is already running *)

(* a step in which start-session was handled *)
StartSessionStep ==
    /\ response'.op = "start-session"
    /\ now' = now

(* C13: start_session on a team that is already active mutates nothing:    *)
(* assigned problems, member slots, completion flags, code store, round    *)
(* and timestamps are the same after the call as before, for any calling   *)
(* member.                                                                 *)
C13_ActiveStartMutatesNothing ==
    [][StartSessionStep /\ team.isActive =>
          /\ team' = team
          /\ questions' = questions
          /\ submissions' = submissions]_vars

(* the third member resumed a session that is in round 2 with code stored  *)
(* and a teammate completed                                                *)
C13_Witness ==
    /\ response.op = "start-session"
    /\ response.gmid = "C"
    /\ response.status = 200
    /\ response.body.alreadyActive
    /\ team.currentRound = 2
    /\ team.members[0].completed
    /\ CodeOf(team, "q1", Java) = "a"
    /\ team.roundStartTime > team.eventStartTime

----------------------------------------------------------------------------
(* Properties of concurrent session starts *)

(* a step in which a start-session request in flight was answered *)
StartSessionAnswered ==
    /\ calls' # calls
    /\ response'.op = "start-session"
    /\ response'.gmid \in DOMAIN calls
    /\ response'.gmid \notin DOMAIN calls'

(* C14: with start-session requests of several members interleaved, the    *)
(* team becomes active once: after it is active no start-session request   *)
(* changes the assigned problems or the event start, not even one that     *)
(* read the team as inactive; and every caller that is returned a problem  *)
(* is returned the problem at its slot in the persisted team.              *)
C14_ActivatedOnce ==
    [][/\ team.isActive =>
             /\ team'.isActive
             /\ team'.assignedQuestions = team.assignedQuestions
             /\ team'.eventStartTime = team.eventStartTime
             /\ team'.members = team.members
       /\ StartSessionAnswered /\ response'.status = 200 =>
             response'.body.question =
                At(team'.assignedQuestions,
                   team'.members[FindIndex(team', response'.gmid)].currentQuestionIndex)]_vars

(* the second member read the team as inactive, the first member's request *)
(* activated it, and the second member's request was then refused at a     *)
(* later time with the assignment intact                                   *)
C14_Witness ==
    /\ response.op = "start-session"
    /\ response.gmid = "B"
    /\ response.status = 500
    /\ response.body.error = "VersionError"
    /\ team.isActive
    /\ team.version = 1
    /\ team.eventStartTime < now
    /\ team.assignedQuestions[1] = "q4"

----------------------------------------------------------------------------
(* Properties of polling *)

(* C15: check_shuffle changes no state of the event (team, catalog,        *)
(* ledger, settings document) and returns shuffleHappened = true exactly   *)
(* when the team's current round is greater than clientRound.              *)
C15_CheckShuffleIsPureRead ==
    [][\A g \in Gmids, r \in ClientRounds :
          response'.op = "check-shuffle" /\ CheckShuffle(TeamName, g, r) =>
             /\ team' = team
             /\ questions' = questions
             /\ submissions' = submissions
             /\ settings'.doc = settings.doc
             /\ response'.status = 200 =>
                   /\ response'.body.shuffleHappened = (team.currentRound > r)
                   /\ response'.body.currentRound = team.currentRound]_vars

(* the third member's poll found the round it asked about left behind *)
C15_Witness ==
    /\ response.op = "check-shuffle"
    /\ response.gmid = "C"
    /\ response.status = 200
    /\ response.body.shuffleHappened
    /\ response.body.currentRound = 3
    /\ team.currentRound = 3

SlotProblem(t, i) == At(t.assignedQuestions, Slot(t, i))

StoredCode(t, p) == MapGet(t.codeByQuestion, p, EmptyMap)

StoredLanguage(t, p) == MapGet(t.questionLanguages, p, DefaultLanguage)

SnapshotOps == {"start-session", "get-state", "check-shuffle"}

(* C16: when a rotation gives member Y the slot of problem p, Y's state    *)
(* snapshot (start_session on the active team, get-state, check_shuffle)   *)
(* returns for p exactly the per-language code and the last-used language  *)
(* that were saved for p before the rotation.                              *)
C16_SnapshotCarriesSavedCode ==
    [][/\ ShuffleDone' /\ Rotate(TeamName) /\ Cardinality(Incomplete(team)) >= 2 =>
             \A y \in Incomplete(team) :
                LET p == SlotProblem(team, Successor(team, y))
                IN  /\ SlotProblem(team', y) = p
                    /\ StoredCode(team', p) = StoredCode(team, p)
                    /\ StoredLanguage(team', p) = StoredLanguage(team, p)
       /\ response'.op \in SnapshotOps /\ response'.status = 200 /\ now' = now =>
             LET p == SlotProblem(team', FindIndex(team', response'.gmid))
             IN  /\ response'.body.questionId = p
                 /\ response'.body.codeByLanguage = StoredCode(team', p)
                 /\ response'.body.languageId = StoredLanguage(team', p)]_vars

(* the first member saved Java code for the easy problem, a rotation gave  *)
(* that problem to the third member, whose poll returned the code          *)
C16_Witness ==
    /\ response.op = "check-shuffle"
    /\ response.gmid = "C"
    /\ response.status = 200
    /\ response.body.shuffleHappened
    /\ team.currentRound = 2
    /\ Slot(team, 2) = 0
    /\ response.body.questionId = "q1"
    /\ response.body.codeByLanguage = [l \in {Java} |-> "a"]
    /\ response.body.languageId = Java

(* C17: rotate changes only the slot indices of incomplete members, the    *)
(* round counter and roundStart; the assigned problems, the code store,    *)
(* the last-used languages, completed flags, the active flag, the          *)
(* event-expired flag, eventStart and the Submission ledger are unchanged. *)
C17_RotateFrame ==
    [][ShuffleDone' /\ Rotate(TeamName) =>
          /\ team' = [team EXCEPT
                        !.members = [i \in MemberIdx |->
                                       [@[i] EXCEPT !.currentQuestionIndex =
                                           Slot(team', i)]],
                        !.currentRound = team'.currentRound,
                        !.roundStartTime = team'.roundStartTime]
          /\ \A i \in MemberIdx :
                team.members[i].completed => Slot(team', i) = Slot(team, i)
          /\ submissions' = submissions
          /\ questions' = questions
          /\ settings' = settings]_vars

(* a rotation of an expired event with a completed member, stored code and *)
(* a ledger entry                                                          *)
C17_Witness ==
    /\ ShuffleDone
    /\ response.body.shuffled
    /\ team.eventExpired
    /\ team.members[0].completed
    /\ Len(submissions) = 1
    /\ CodeOf(team, "q1", Java) = "a"
    /\ team.currentRound = 3
    /\ team.roundStartTime = now
    /\ team.eventStartTime < now

----------------------------------------------------------------------------
(* Properties of session start over an incomplete catalog *)

TierLacking == \E d \in Difficulties : ~ \E q \in DOMAIN questions : Tier(q) = d

(* C18: start_session on an inactive team while some difficulty tier has   *)
(* no problem in the catalog fails with the insufficient-catalog           *)
(* rejection and leaves the team as it was: inactive, with no assigned     *)
(* problems.                                                               *)
C18_InsufficientCatalogRejected ==
    [][\A g \in Gmids :
          /\ response'.op = "start-session"
          /\ StartSession(TeamName, g)
          /\ ~team.isActive
          /\ TierLacking
          => /\ response'.status = 400
             /\ response'.body = [error |-> "Not enough questions"]
             /\ team' = team
             /\ ~team'.isActive
             /\ team'.assignedQuestions = <<>>
             /\ questions' = questions
             /\ submissions' = submissions]_vars

(* the session was refused over a catalog with easy and medium problems    *)
(* but no hard one, after an earlier session had been reset                *)
C18_Witness ==
    /\ response.op = "start-session"
    /\ response.status = 400
    /\ ~team.isActive
    /\ team.assignedQuestions = <<>>
    /\ team.version = 2
    /\ {"q1", "q2"} \subseteq DOMAIN questions
    /\ TierLacking

----------------------------------------------------------------------------
(* Properties of the gateway failing during a run *)

(* a step in which the run-code request of g in flight was answered *)
RunAnswered(g) ==
    /\ g \in DOMAIN calls
    /\ calls[g].op = "run-code"
    /\ g \notin DOMAIN calls'

(* C19: in run, a gateway error or timeout on one test case yields a       *)
(* failed result for that test case only: results has one entry per test   *)
(* case, each other test case's passed flag is determined by its own       *)
(* gateway response, and the request returns its success payload.          *)
C19_GatewayFailureFailsOneCase ==
    [][\A g \in Gmids :
          RunAnswered(g) =>
             LET c == calls[g]
                 results == response'.body.results
             IN  /\ response'.status = 200
                 /\ response'.body.success
                 /\ response'.body.totalTestCases = Len(c.testCases)
                 /\ Len(results) = Len(c.testCases)
                 /\ \A k \in 1..Len(c.testCases) :
                       /\ results[k].input = c.testCases[k].input
                       /\ c.replies[k] = JudgeError =>
                             ~results[k].passed /\ results[k].status = "Error"
                       /\ c.replies[k] # JudgeError =>
                             /\ results[k].status # "Error"
                             /\ results[k].passed =
                                   /\ c.replies[k].statusId = Accepted
                                   /\ Trim(c.replies[k].stdout) =
                                         Trim(c.testCases[k].expectedOutput)]_vars

(* the gateway call for the second of three test cases was rejected, the   *)
(* other two were accepted, and the run was answered and recorded          *)
C19_Witness ==
    /\ Judged(response)
    /\ response.gmid = "C"
    /\ response.body.success
    /\ Len(response.body.results) = 3
    /\ response.body.results[1].passed
    /\ response.body.results[2].status = "Error"
    /\ ~response.body.results[2].passed
    /\ response.body.results[3].passed
    /\ response.body.passedCount = 2
    /\ "C" \notin DOMAIN calls
    /\ Len(submissions) = 1

----------------------------------------------------------------------------
(* Properties of the settings cache *)

(* a getSettings() call that starts in this step and returns in it *)
ReadStartsAndReturns(r) ==
    /\ r \notin DOMAIN calls
    /\ r \notin DOMAIN calls'
    /\ response'.op = "getSettings"
    /\ response'.gmid = r
    /\ now' = now
    /\ settings' = settings

(* C20: after a settings write has completed, every settings read through  *)
(* the cache that starts afterwards returns the newly written values,      *)
(* whatever the interleaving of the write with reads that were already in  *)
(* flight.  A read that starts with no write in flight and goes to the     *)
(* database gets the stored values; so the reads in question are those     *)
(* answered from the cache.                                                *)
C20_ReadAfterWriteIsFresh ==
    [][\A r \in Readers :
          /\ ReadStartsAndReturns(r)
          /\ CacheFresh(settings, now)
          /\ Admin \notin DOMAIN calls
          /\ settings.doc # <<>>
          => response'.body = settings.doc[1]]_vars

----------------------------------------------------------------------------
(* Saves of several codes, languages and problems, with a member who may   *)
(* complete                                                                *)

InitSave ==
    /\ team = NewTeam
    /\ questions = CoreCatalog
    /\ submissions = <<>>
    /\ now = 0
    /\ response = NoResponse
    /\ settings = NewSettings
    /\ calls = NoCalls

SaveCodes == {"a", "b"}
SaveQuestions == {"q1", "q2"}

NextSave ==
    \/ StartSession(TeamName, "A")
    \/ \E g \in {"A", "B"}, c \in SaveCodes, l \in Langs, q \in SaveQuestions :
          SaveCode(TeamName, g, c, l, q)
    \/ \E tn \in TeamNames, g \in {"A", "Z"}, q \in {"q1", NoQuestion} :
          SaveCode(tn, g, "a", Java, q)
    \/ Run(TeamName, "C", "a", 0, UniformGateway)

SpecSave == InitSave /\ [][NextSave]_vars

----------------------------------------------------------------------------
(* C21: order of two saves *)

SaveInputs ==
    [gmid : {"A", "B"}, code : SaveCodes, languageId : Langs,
     questionId : SaveQuestions]

Saved(t, s) == AfterSave(t, TeamName, s.gmid, s.code, s.languageId, s.questionId)

ByIncomplete(t, s) ==
    /\ FindIndex(t, s.gmid) # -1
    /\ ~t.members[FindIndex(t, s.gmid)].completed

----------------------------------------------------------------------------
(* Runs by the three members, any of them again after completing, with an  *)
(* admin who may empty the ledger                                          *)

InitLedger ==
    /\ team = NewTeam
    /\ questions = CoreCatalog
    /\ submissions = <<>>
    /\ now = 0
    /\ response = NoResponse
    /\ settings = NewSettings
    /\ calls = NoCalls

NextLedger ==
    \/ StartSession(TeamName, "A")
    \/ \E i \in MemberIdx : Run(TeamName, Roster[i], "a", 0, UniformGateway)
    \/ DeleteSubmissions
    \/ Tick

SpecLedger == InitLedger /\ [][NextLedger]_vars

----------------------------------------------------------------------------
(* Runs of two members in flight together, with an admin who may reset the *)
(* team under them                                                         *)

InitRunSteps ==
    /\ team = NewTeam
    /\ questions = CoreCatalog
    /\ submissions = <<>>
    /\ now = 0
    /\ response = NoResponse
    /\ settings = NewSettings
    /\ calls = NoCalls

RunStepMembers == {"A", "B"}

NextRunSteps ==
    \/ StartSession(TeamName, "A")
    \/ \E g \in RunStepMembers : BeginRun(TeamName, g, "a", 0)
    \/ \E g \in RunStepMembers,
          reply \in {JudgeResult(Accepted, <<"4">>, <<>>, <<>>), JudgeError} :
          GatewayReply(g, 1, reply)
    \/ \E g \in RunStepMembers : RecordRun(g)
    \/ \E g \in RunStepMembers : FinishRun(g)
    \/ ResetTeam(TeamName)

SpecRunSteps == InitRunSteps /\ [][NextRunSteps]_vars

----------------------------------------------------------------------------
(* The life of a team: started, worked on, rotated, expired, reset and     *)
(* started again                                                           *)

InitLife ==
    /\ team = NewTeam
    /\ questions = CoreCatalog
    /\ submissions = <<>>
    /\ now = 0
    /\ response = NoResponse
    /\ settings = NewSettings
    /\ calls = NoCalls

NextLife ==
    \/ StartSession(TeamName, "A")
    \/ SaveCode(TeamName, "A", "a", Java, "q1")
    \/ Rotate(TeamName)
    \/ Run(TeamName, "A", "a", 0, UniformGateway)
    \/ ExpireEvent(TeamName, "A")
    \/ \E tn \in TeamNames : ResetTeam(tn)
    \/ ResetAllTeams

SpecLife == InitLife /\ [][NextLife]_vars

----------------------------------------------------------------------------
(* C22: once team.completedAt has been stamped, no student request changes *)
(* its value; only the admin's reset clears it.                            *)
C22_CompletedAtSetOnce ==
    [][team.completedAt # NULL /\ response'.op # "reset-team"
       => team'.completedAt = team.completedAt]_vars

----------------------------------------------------------------------------
(* C23: an answered event-expired request sets team.eventExpired and       *)
(* leaves every other field of the team, the catalog and the ledger as     *)
(* they were; on a team already expired it changes nothing, so a second    *)
(* call leaves the state of the first.                                     *)
C23_ExpireSetsOnlyTheFlag ==
    [][response'.op = "event-expired" /\ response'.status = 200 =>
         /\ team'.eventExpired
         /\ [team' EXCEPT !.eventExpired = team.eventExpired] = team
         /\ team.eventExpired => team' = team
         /\ UNCHANGED <<questions, submissions>>]_vars

(* the event was expired on a rotated team that holds saved code and has   *)
(* a completed member                                                      *)
C23_Witness ==
    /\ response.op = "event-expired"
    /\ response.status = 200
    /\ team.eventExpired
    /\ team.isActive
    /\ team.currentRound > 1
    /\ team.codeByQuestion # EmptyMap
    /\ \E i \in MemberIdx : team.members[i].completed

----------------------------------------------------------------------------
----------------------------------------------------------------------------
(* C25: no state is active but unassigned: whenever team.isActive holds,   *)
(* the team has exactly three assigned problems and every member's slot    *)
(* index is in 0..2, after any sequence of start-session, shuffle,         *)
(* run-code, save-code, event-expired and reset-team requests.             *)
C25_ActiveMeansAssigned ==
    team.isActive =>
        /\ Len(team.assignedQuestions) = 3
        /\ \A i \in MemberIdx : team.members[i].currentQuestionIndex \in 0..2

(* a team that was reset and started again, then rotated, with a member    *)
(* completed and the event expired                                         *)
C25_Witness ==
    /\ team.isActive
    /\ team.version >= 3
    /\ team.currentRound > 1
    /\ team.eventExpired
    /\ \E i \in MemberIdx : team.members[i].completed

----------------------------------------------------------------------------
(* C26: a save-code request without a question id is answered 400 whatever *)
(* team and member it names, and one that names a team that does not exist *)
(* or a member not in the team is answered 404; in each case the team      *)
(* document is left as it was.                                             *)
C26_SaveRejectionsWriteNothing ==
    [][\A tn \in TeamNames, g \in {"A", "Z"}, q \in {"q1", NoQuestion} :
          response'.op = "save-code" /\ SaveCode(tn, g, "a", Java, q) =>
             /\ q = NoQuestion =>
                   /\ response'.status = 400
                   /\ response'.body = [error |-> "questionId is required"]
                   /\ team' = team
             /\ q # NoQuestion /\ (tn # team.teamName \/ FindIndex(team, g) = -1) =>
                   /\ response'.status = 404
                   /\ response'.body = [error |-> "Team or member not found"]
                   /\ team' = team]_vars

(* a save by a stranger was answered not-found on a team that holds code   *)
(* saved before                                                            *)
C26_Witness ==
    /\ response.op = "save-code"
    /\ response.gmid = "Z"
    /\ response.status = 404
    /\ team.codeByQuestion # EmptyMap
    /\ team.isActive

----------------------------------------------------------------------------
(* The client at the end of a round: handleTimerEnd saves the editor's     *)
(* code, then requests the shuffle                                         *)

(* api.student.saveCode(teamName, gmid, code, languageId): the body it     *)
(* posts has no questionId                                                 *)
ClientSaveCode(gmid, code, languageId) ==
    SaveCode(TeamName, gmid, code, languageId, NoQuestion)

(* api.student.shuffle(teamName) *)
ClientShuffle == Rotate(TeamName)

InitClient ==
    /\ team = NewTeam
    /\ questions = CoreCatalog
    /\ submissions = <<>>
    /\ now = 0
    /\ response = NoResponse
    /\ settings = NewSettings
    /\ calls = NoCalls

EditorCode == "a"

NextClient ==
    \/ StartSession(TeamName, "A")
    \/ \E i \in MemberIdx : ClientSaveCode(Roster[i], EditorCode, Java)
    \/ ClientShuffle
    \/ Tick

SpecClient == InitClient /\ [][NextClient]_vars

(* C27: when a member's round countdown reaches zero the client saves the  *)
(* editor's code before it requests the shuffle: at the shuffle that       *)
(* follows the member's save, the code store holds that code for the       *)
(* problem the member held when the rotation is applied.                   *)
C27_CodeSavedBeforeShuffle ==
    [][\A i \in MemberIdx :
          /\ response.op = "save-code"
          /\ response.gmid = Roster[i]
          /\ team.isActive
          /\ ~team.members[i].completed
          /\ ShuffleDone'
          => CodeOf(team', SlotProblem(team, i), Java) = EditorCode]_vars

----------------------------------------------------------------------------
(* An event run with short intervals, so that rounds and the event run out *)
(* while members start, rotate and poll                                    *)

ShortShuffleTimes == 1..2
ShortEventDurations == 2..3

InitTimes ==
    /\ team = NewTeam
    /\ questions = CoreCatalog
    /\ submissions = <<>>
    /\ now = 0
    /\ response = NoResponse
    /\ \E st \in ShortShuffleTimes, ed \in ShortEventDurations :
          settings = [NewSettings EXCEPT !.doc = <<SettingsDoc(st, ed)>>]
    /\ calls = NoCalls

NextTimes ==
    \/ \E g \in {"A", "B"} : StartSession(TeamName, g)
    \/ Rotate(TeamName)
    \/ GetState(TeamName, "B")
    \/ CheckShuffle(TeamName, "C", 1)
    \/ Tick

SpecTimes == InitTimes /\ [][NextTimes]_vars

(* a step in which a snapshot request was answered *)
SnapshotAnswered ==
    /\ now' = now
    /\ response'.op \in SnapshotOps
    /\ response'.status = 200

(* remaining is max(0, interval - elapsed): not negative, not above the    *)
(* interval, and 0 exactly when the interval has run out                   *)
RemainingAsClaimed(remaining, interval, elapsed) ==
    /\ remaining = (IF interval - elapsed > 0 THEN interval - elapsed ELSE 0)
    /\ remaining >= 0
    /\ remaining <= interval
    /\ remaining = 0 <=> elapsed >= interval

(* C28: the remaining rotation time and the remaining event time answered  *)
(* by start-session, get-state and check-shuffle are max(0, interval -     *)
(* elapsed) for the interval answered with them and the whole seconds      *)
(* elapsed on the server clock since roundStartTime and eventStartTime:    *)
(* never negative, never above the interval, 0 exactly when elapsed >=     *)
(* interval.                                                               *)
C28_RemainingTimeClamped ==
    [][SnapshotAnswered =>
         /\ team'.roundStartTime # NULL /\ now >= team'.roundStartTime =>
               RemainingAsClaimed(response'.body.remainingShuffleTime,
                                  response'.body.shuffleTime,
                                  now - team'.roundStartTime)
         /\ team'.eventStartTime # NULL /\ now >= team'.eventStartTime =>
               RemainingAsClaimed(response'.body.remainingEventTime,
                                  response'.body.eventDuration,
                                  now - team'.eventStartTime)]_vars

(* a poll answered after the round ran out and before the event did *)
C28_Witness ==
    /\ response.op = "check-shuffle"
    /\ response.status = 200
    /\ team.roundStartTime # NULL
    /\ now - team.roundStartTime > response.body.shuffleTime
    /\ response.body.remainingShuffleTime = 0
    /\ response.body.remainingEventTime > 0
    /\ response.body.remainingEventTime < response.body.eventDuration

----------------------------------------------------------------------------
(* a step in which a reset of the team was answered *)
ResetAnswered ==
    /\ response'.op \in {"reset-team", "reset-all-teams"}
    /\ response'.status = 200

(* the fields of the document, its version key __v aside *)
Fields(t) == [t EXCEPT !.version = 0]

(* C29: a reset applied to a team in any state leaves the fields of a      *)
(* freshly registered team: inactive, no assigned problems, empty code     *)
(* store and last-used-language map, round 1, roundStartTime,              *)
(* eventStartTime and completedAt null, eventExpired false, every member's *)
(* slot null and completed flag false; reset-team and reset-all-teams      *)
(* leave the same fields, those of the new team.                           *)
C29_ResetRestoresFreshTeam ==
    [][ResetAnswered => Fields(team') = NewTeam]_vars

(* a reset was answered on a team that had been started again, rotated,    *)
(* expired, held saved code and was completed                              *)
C29_Witness ==
    /\ response.op = "reset-all-teams"
    /\ team.version >= 2
    /\ Fields(team) = NewTeam
    /\ Len(submissions) >= 2

----------------------------------------------------------------------------
(* Shuffles of two clients and a member's run in flight together *)

InitShuffle ==
    /\ team = NewTeam
    /\ questions = CoreCatalog
    /\ submissions = <<>>
    /\ now = 0
    /\ response = NoResponse
    /\ settings = NewSettings
    /\ calls = NoCalls

NextShuffle ==
    \/ StartSession(TeamName, "A")
    \/ \E r \in Shufflers : BeginRotate(r)
    \/ \E r \in Shufflers : FinishRotate(r)
    \/ BeginRun(TeamName, "B", "a", 0)
    \/ \E k \in 1..3 : GatewayReply("B", k, JudgeResult(Accepted, <<"4">>, <<>>, <<>>))
    \/ RecordRun("B")
    \/ FinishRun("B")

SpecShuffle == InitShuffle /\ [][NextShuffle]_vars

(* C30: in every reachable state of an active team, states reached by      *)
(* interleaved read and write steps of concurrent shuffle and run-code     *)
(* requests included, the three members' slot indices are pairwise         *)
(* distinct values in 0..2.                                                *)
C30_SlotsArePermutation ==
    team.isActive =>
        /\ \A i \in MemberIdx : team.members[i].currentQuestionIndex \in 0..2
        /\ \A i, j \in MemberIdx :
              i # j => team.members[i].currentQuestionIndex
                          # team.members[j].currentQuestionIndex

----------------------------------------------------------------------------
(* Properties of shuffles and runs in flight together *)

(* a step in which the run-code request of member i sets the completed     *)
(* flag in the stored document                                             *)
CompletionWritten(i) ==
    /\ ~team.members[i].completed
    /\ team'.members[i].completed
    /\ Roster[i] \in DOMAIN calls
    /\ calls[Roster[i]].op = "run-code"

(* C31: for any interleaving of run-code with shuffle requests, a run      *)
(* marks a member completed only for the problem at the member's slot when *)
(* the flag is written: the problem whose test cases the judged code       *)
(* passed is the one the member then holds.                                *)
C31_CompletedForHeldProblem ==
    [][\A i \in MemberIdx :
          CompletionWritten(i) =>
             calls[Roster[i]].questionId = SlotProblem(team', i)]_vars

----------------------------------------------------------------------------
(* C32: for any interleaving of a shuffle (read the team, compute the      *)
(* rotation, write) with a run-code that sets a member's completed flag,   *)
(* the slot the member holds once its flag is set is not changed           *)
(* afterwards by the write of that shuffle.                                *)
C32_CompletedSlotFrozenUnderRace ==
    [][\A i \in MemberIdx :
          /\ team.members[i].completed
          /\ response'.op = "shuffle"
          => team'.members[i].currentQuestionIndex
                = team.members[i].currentQuestionIndex]_vars

----------------------------------------------------------------------------
(* C33: for any interleaving of the read and write steps of concurrent     *)
(* shuffles on one team, the stored round counter never decreases: no      *)
(* shuffle's write lowers team.currentRound below a value another shuffle  *)
(* has stored.                                                             *)
C33_RoundNeverDecreases ==
    [][response'.op = "shuffle" => team'.currentRound >= team.currentRound]_vars

----------------------------------------------------------------------------
(* Two shuffles posted for one round boundary, nothing else in between *)

(* a shuffle that none of the requests in flight has seen written: a       *)
(* request begins only while every copy held in flight is the stored       *)
(* document, so that at most one other shuffle is saved between the read   *)
(* and the save of any request                                             *)
DuplicateTrigger(r) ==
    /\ \A o \in DOMAIN calls : calls[o].doc = team
    /\ BeginRotate(r)

InitDuplicate ==
    /\ team = NewTeam
    /\ questions = CoreCatalog
    /\ submissions = <<>>
    /\ now = 0
    /\ response = NoResponse
    /\ settings = NewSettings
    /\ calls = NoCalls

NextDuplicate ==
    \/ calls = NoCalls /\ StartSession(TeamName, "A")
    \/ calls = NoCalls /\ SaveCode(TeamName, "A", "a", Java, "q1")
    \/ calls = NoCalls /\ \E i \in MemberIdx : Run(TeamName, Roster[i], "a", 0, UniformGateway)
    \/ \E r \in Shufflers : DuplicateTrigger(r)
    \/ \E r \in Shufflers : FinishRotate(r)

SpecDuplicate == InitDuplicate /\ [][NextDuplicate]_vars

(* the member slots one shuffle handled alone leaves on team t *)
RotatedOnce(t) ==
    IF Len(IncompleteMembers(t)) <= 1
    THEN [i \in MemberIdx |-> Slot(t, i)]
    ELSE [i \in MemberIdx |->
            ApplyRotation(t, IncompleteMembers(t),
                RotatedIndices(QuestionIndices(t, IncompleteMembers(t))))[i]
                    .currentQuestionIndex]

Slots(t) == [i \in MemberIdx |-> Slot(t, i)]

(* request r holds a copy that another shuffle has overwritten in store *)
Overtaken(r) == calls[r].doc # team

(* C34: for any interleaving of two concurrent shuffles of one team with   *)
(* no other operation in between, the final slots are those of one or of   *)
(* two shuffles in sequence on the starting state, the round has grown by  *)
(* 1 or by 2, and the code store is unchanged.  Every save of the pair     *)
(* leaves the slots one shuffle makes of the state its request read, one   *)
(* round later, with the code store as read; a request overtaken by the    *)
(* other read the starting state, which the other's save had rotated once, *)
(* and its save repeats that state (once, +1); a request not overtaken     *)
(* rotates what it finds (the second in sequence: twice, +2).              *)
C34_DuplicateShuffleRotatesOnceOrTwice ==
    [][\A r \in Shufflers :
          (r \in DOMAIN calls /\ r \notin DOMAIN calls') =>
             /\ response'.status = 200
             /\ Slots(team') = RotatedOnce(calls[r].doc)
             /\ team'.currentRound = calls[r].doc.currentRound + 1
             /\ team'.codeByQuestion = calls[r].doc.codeByQuestion
             /\ team'.questionLanguages = calls[r].doc.questionLanguages
             /\ Overtaken(r) =>
                   /\ Slots(team') = Slots(team)
                   /\ team'.currentRound = team.currentRound
                   /\ Slots(team) = RotatedOnce(calls[r].doc)]_vars

(* one of two shuffles that read the same state has saved, the other is   *)
(* about to save its overtaken copy: two members in play and one           *)
(* completed, a stored code, the round at 2                                *)
C34_Witness ==
    /\ response.op = "shuffle"
    /\ response.status = 200
    /\ \E r \in DOMAIN calls : Overtaken(r) /\ calls[r].doc.currentRound = 1
    /\ team.currentRound = 2
    /\ Cardinality(Incomplete(team)) = 2
    /\ team.codeByQuestion # EmptyMap

----------------------------------------------------------------------------
(* C35: start-session posted with a gmid that is not in the team's roster  *)
(* fails and leaves the team unchanged: an inactive team stays inactive,   *)
(* with no assigned problems and no timestamps.                            *)
C35_NonMemberStartWritesNothing ==
    [][\A g \in Gmids :
          /\ FindIndex(team, g) = -1
          /\ g \in DOMAIN calls
          /\ g \notin DOMAIN calls'
          /\ calls[g].op = "start-session"
          => /\ response'.status >= 400
             /\ team' = team]_vars

----------------------------------------------------------------------------
(* Shuffles handled one after another while a run is being judged: the run *)
(* request holds the team as it read it before the first of them           *)

InitBoundary ==
    /\ team = NewTeam
    /\ questions = CoreCatalog
    /\ submissions = <<>>
    /\ now = 0
    /\ response = NoResponse
    /\ settings = NewSettings
    /\ calls = NoCalls

NextBoundary ==
    \/ calls = NoCalls /\ StartSession(TeamName, "A")
    \/ calls = NoCalls /\ \E g \in {"B", "C"} : Run(TeamName, g, "a", 0, UniformGateway)
    \/ BeginRun(TeamName, "A", "a", 0)
    \/ \E k \in 1..3 : GatewayReply("A", k, JudgeError)
    \/ RecordRun("A")
    \/ FinishRun("A")
    \/ Rotate(TeamName)

SpecBoundary == InitBoundary /\ [][NextBoundary]_vars

----------------------------------------------------------------------------
(* The client of a member that polls for shuffles.  Its state (the problem *)
(* shown, the round last observed, the completed flag) is kept in calls    *)
(* under the member's gmid                                                 *)

(* startSession() of the client on a successful reply: setQuestion,        *)
(* setCompleted, setCurrentRound, setSessionStarted(true)                  *)
AdoptSession(g) ==
    /\ g \notin DOMAIN calls
    /\ response.op = "start-session"
    /\ response.gmid = g
    /\ response.status = 200
    /\ calls' = MapSet(calls, g,
                  [op |-> "client",
                   question |-> response.body.question,
                   currentRound |-> response.body.currentRound,
                   completed |-> response.body.completed])
    /\ UNCHANGED <<team, questions, submissions, now, response, settings>>

(* if (!sessionStarted || completed || allCompleted || eventExpired) return *)
Polling(g) ==
    /\ g \in DOMAIN calls
    /\ calls[g].op = "client"
    /\ ~calls[g].completed

(* the interval callback: api.student.checkShuffle(teamName, gmid,         *)
(* currentRound)                                                           *)
Poll(g) ==
    /\ Polling(g)
    /\ CheckShuffle(TeamName, g, calls[g].currentRound)

(* the reply of g's poll has arrived with shuffleHappened and the client   *)
(* has not applied it yet                                                  *)
ShuffleSeen(g) ==
    /\ Polling(g)
    /\ response.op = "check-shuffle"
    /\ response.gmid = g
    /\ response.status = 200
    /\ response.body.shuffleHappened
    /\ calls[g].currentRound < response.body.currentRound

(* if (state.shuffleHappened): setQuestion, setCompleted, setCurrentRound *)
AdoptShuffle(g) ==
    /\ ShuffleSeen(g)
    /\ calls' = [calls EXCEPT ![g] =
                   [@ EXCEPT !.question = response.body.question,
                             !.currentRound = response.body.currentRound,
                             !.completed = response.body.completed]]
    /\ UNCHANGED <<team, questions, submissions, now, response, settings>>

(* the clients that poll *)
Pollers == {"A"}

(* a reply is read by the client that sent the request, whatever is        *)
(* handled next: no other request is handled between a reply and its use   *)
NoReplyWaiting ==
    /\ \A g \in Pollers : ~ShuffleSeen(g)
    /\ \A g \in Pollers : ~ENABLED AdoptSession(g)

InitWatch ==
    /\ team = NewTeam
    /\ questions = CoreCatalog
    /\ submissions = <<>>
    /\ now = 0
    /\ response = NoResponse
    /\ settings = NewSettings
    /\ calls = NoCalls

NextWatch ==
    \/ NoReplyWaiting /\ \E g \in Pollers : StartSession(TeamName, g)
    \/ \E g \in Pollers : AdoptSession(g)
    \/ NoReplyWaiting /\ Rotate(TeamName)
    \/ NoReplyWaiting /\ \E g \in {"B", "C"} : Run(TeamName, g, "a", 0, UniformGateway)
    \/ \E g \in Pollers : Poll(g)
    \/ \E g \in Pollers : AdoptShuffle(g)

(* setInterval(..., 3000): the poll is sent again and again, and a reply   *)
(* that arrived is applied                                                 *)
FairWatch ==
    \A g \in Pollers : WF_vars(Poll(g)) /\ WF_vars(AdoptShuffle(g))

SpecWatch == InitWatch /\ [][NextWatch]_vars /\ FairWatch

(* the client of g shows the round and the problem the server holds *)
InStep(g) ==
    /\ calls[g].currentRound = team.currentRound
    /\ calls[g].question = SlotProblem(team, FindIndex(team, g))

(* C37: if the server's round is greater than the round the client of a    *)
(* polling, incomplete member last observed, then under fair polling and   *)
(* with no reset the client eventually receives shuffleHappened = true and *)
(* adopts the server's current round and the problem at its current slot.  *)
C37_PollCatchesUp ==
    \A g \in Pollers : \A n \in 1..MaxRound :
        (Polling(g) /\ calls[g].currentRound = n /\ team.currentRound > n)
        ~> (Polling(g) /\ calls[g].currentRound > n /\ InStep(g)
            /\ response.op = "check-shuffle" /\ response.body.shuffleHappened)

(* the client of A, two rounds behind, has applied a poll reply: round 3   *)
(* and the problem at A's slot, which is not the one it started with       *)
C37_Witness ==
    /\ Polling("A")
    /\ response.op = "check-shuffle"
    /\ response.gmid = "A"
    /\ response.body.shuffleHappened
    /\ calls["A"].currentRound = 3
    /\ InStep("A")
    /\ calls["A"].question # At(team.assignedQuestions, InitialIndex(0))

----------------------------------------------------------------------------
(* The event deadline: sessions under short event durations, with          *)
(* event-expired posted at any time                                        *)

NextDeadline ==
    \/ \E g \in {"A", "B"} : StartSession(TeamName, g)
    \/ \E g \in {"A", "B"} : GetState(TeamName, g)
    \/ \E g \in {"A", "B"} : ExpireEvent(TeamName, g)
    \/ Tick

SpecDeadline == InitTimes /\ [][NextDeadline]_vars

(* C38: a team's eventExpired flag is true only in states where at least   *)
(* the configured event duration has elapsed on the server clock since the *)
(* team's eventStartTime: event-expired cannot mark a team expired before  *)
(* its deadline.                                                           *)
C38_ExpiredOnlyAfterDeadline ==
    team.eventExpired =>
       /\ team.eventStartTime # NULL
       /\ ElapsedSeconds(team.eventStartTime, now)
             >= GetSettings(settings, now).eventDuration

----------------------------------------------------------------------------
(* Runs in flight whose gateway calls all settle: each call is answered,   *)
(* is rejected, or is given up after the 30 s timeout of the request       *)

(* a gateway call without a timeout that never comes back *)
NoOutcome == {}

(* what a gateway call settles with: the expected output, another output,  *)
(* or a rejection (gateway error, network error, timeout: 30000)           *)
CallOutcomes ==
    { JudgeResult(Accepted, <<"4">>, <<>>, <<>>),
      JudgeResult(Accepted, <<"5">>, <<>>, <<>>),
      JudgeError }

(* the member whose runs are followed: C holds the problem with three test *)
(* cases                                                                   *)
FanInMembers == {"C"}

(* the gateway call of g for test case k settles *)
Settle(g, k) == \E reply \in CallOutcomes : GatewayReply(g, k, reply)

InitFanIn ==
    /\ team = NewTeam
    /\ questions = CoreCatalog
    /\ submissions = <<>>
    /\ now = 0
    /\ response = NoResponse
    /\ settings = NewSettings
    /\ calls = NoCalls

NextFanIn ==
    \/ StartSession(TeamName, "A")
    \/ \E g \in FanInMembers :
          /\ Len(submissions) + Cardinality({c \in DOMAIN calls : ~calls[c].recorded})
                < MaxSubs
          /\ BeginRun(TeamName, g, "a", 0)
    \/ \E g \in FanInMembers, k \in 1..3 : Settle(g, k)
    \/ \E g \in FanInMembers : RecordRun(g)
    \/ \E g \in FanInMembers : FinishRun(g)

(* every gateway call settles (timeout: 30000), and the handler goes on    *)
(* once what it awaits has settled                                         *)
FairFanIn ==
    \A g \in FanInMembers :
       /\ \A k \in 1..3 : WF_vars(Settle(g, k))
       /\ WF_vars(RecordRun(g))
       /\ WF_vars(FinishRun(g))

SpecFanIn == InitFanIn /\ [][NextFanIn]_vars /\ FairFanIn

(* the run request of g is being handled *)
Running(g) == g \in DOMAIN calls /\ calls[g].op = "run-code"

(* C39: every run-code request eventually returns a response, whatever     *)
(* each gateway call does (accepts, reports a failure, errors or times     *)
(* out): the calls of all test cases are issued together, each settles,    *)
(* the fan-in completes and the request does not block for ever.  A        *)
(* request leaves only with its response.                                  *)
C39_RunReturns ==
    /\ [][\A g \in FanInMembers :
             Running(g) /\ ~Running(g)' =>
                /\ response'.op = "run-code"
                /\ response'.gmid = g
                /\ response'.status \in {200, 500}]_vars
    /\ \A g \in FanInMembers : Running(g) ~> ~Running(g)

(* the run of C has returned after a fan-in of three calls of which one    *)
(* passed and one was rejected                                             *)
C39_Witness ==
    /\ ~Running("C")
    /\ response.op = "run-code"
    /\ response.gmid = "C"
    /\ response.status = 200
    /\ response.body.totalTestCases = 3
    /\ response.body.passedCount = 1
    /\ \E k \in 1..3 : response.body.results[k].status = "Error"

----------------------------------------------------------------------------
(* the problems assigned to team t *)
Assigned(t) == {t.assignedQuestions[k] : k \in 1..Len(t.assignedQuestions)}

(* C40: in every reachable state, every problem key present in a team's    *)
(* code store and in its last-used-language map is one of the team's       *)
(* assigned problems: save-code never creates an entry for a problem the   *)
(* team was not assigned, and never writes to an inactive team.            *)
C40_StoredKeysAreAssigned ==
    /\ DOMAIN team.codeByQuestion \subseteq Assigned(team)
    /\ DOMAIN team.questionLanguages \subseteq Assigned(team)
    /\ ~team.isActive => team.codeByQuestion = EmptyMap

====
